---- MODULE Spec2Model ----
(***************************************************************************)
(* Verification model of rust-hdl: the Signal (rust-hdl-core/signal.rs),   *)
(* block connection (widgets' connect()), and the static checks            *)
(* check_connected and check_logic_loops (rust_hdl_lib_core).              *)
(***************************************************************************)
EXTENDS Integers, Sequences, FiniteSets, TLC

(***************************************************************************)
(* Bounds                                                                  *)
(***************************************************************************)
\* largest value of the data signal's type (Bits<W> holds 0 .. 2^W - 1)
MaxVal == 2
\* connect_all calls that may return on one block graph
MaxConnectAll == 2
\* atoms (signals) in a block graph handed to a static check
MaxAtoms == 2
\* statements in the behaviour of the blocks of such a graph, all blocks together
MaxStmts == 2
\* nesting depth of scopes and namespaces in such a graph, the top included
MaxDepth == 2

VARIABLES
    sig,        \* signal name -> Signal record (next, val, prev, changed, claimed, id)
    aborted,    \* TRUE once an assert! has panicked
    lastCall,   \* the call that returned last: [op, s]
    entry,      \* the fields of signal lastCall.s on entry to that call
    returned,   \* number of connect_all calls on the block that have returned
    stack,      \* the nested accept() calls of a traversal: the scopes and namespaces entered
    visits,     \* number of atoms a traversal has visited
    seen,       \* the unclaimed atoms among them, in order, with where they sit
    path,       \* probe field path: NamedPath
    namespace,  \* CheckConnected.namespace: NamedPath
    failures,   \* CheckConnected.failures: OpenMap, signal id -> PathedName
    result,     \* what the check returned: "none" while it runs, then "Ok" or "Err"
    names,      \* LocalVars.names: one set of signal names per open scope or namespace
    loops,      \* LocalVars.loops: PathedNameList
    detector,   \* the VerilogLogicLoopDetector of the walk in progress
    walk,       \* the walk in progress: the kind of hdl() and what its statements so far read and write
    blocks,     \* the blocks whose scope a traversal has closed: path, hdl kind, what the behaviour reads and writes
    code,       \* the statements of the block being walked, when the check keeps them
    phase,      \* Simulation: the state of the kernel's state machine
    task,       \* the testbench of RunningTask(i), else 0
    now,        \* simulated time
    tb,         \* testbench -> where it is suspended: [st, p, due]; p of a failed one is its error
    runnable,   \* the testbenches marked runnable in this simulated moment
    iter,       \* settle iterations done in this simulated moment
    simResult,  \* what run returned: "none" while it runs
    resumed,    \* the testbenches resumed in this simulated moment, in order
    snapshot,   \* the values of the DUT's signals when this simulated moment began
    woke,       \* testbench -> how it was last resumed: what it waited for, and whether that held
    differed,   \* whether the last settle iteration found a signal whose next differed from val
    idCounter,  \* GLOBAL_THREAD_COUNT
    thread,     \* thread -> where it is in a Signal constructor: [pc, id, ctor]
    made,       \* the signals constructed so far, in the order the constructors returned
    cycle,      \* Shot: rising clock edges so far
    shot,       \* Shot: [duration, state_q, counter_q], the constant and the flip-flops' outputs
    trigs,      \* Shot: the cycles whose clock edge found trigger high
    outs,       \* Shot: cycle -> [active, fired]
    fifo,       \* SyncFIFO: [mem, write_ptr, read_ptr, overflow, underflow]
    written,    \* number of words the writer testbench has written
    got,        \* the words the reader testbench took from data_out, in order
    sender,     \* SyncSender: [state, hold, flag, ack1, ack2]
    recv,       \* SyncReceiver: [state, hold, ack, update, flag1, flag2]
    sent,       \* sender testbench: [n, send], values handed over so far and the level of send
    presented,  \* the values the receiver testbench saw with update high, in order
    uut,        \* the block under test of the widget and chip-simulator specifications
    trace       \* what that block has been seen to do so far

vars == <<sig, aborted, lastCall, entry, returned,
          stack, visits, seen, path, namespace, failures, result,
          names, loops, detector, walk, blocks, code,
          phase, task, now, tb, runnable, iter, simResult,
          resumed, snapshot, woke, differed,
          idCounter, thread, made, cycle, shot, trigs, outs,
          fifo, written, got, sender, recv, sent, presented, uut, trace>>

\* what the specifications of the signal and of the two static checks over
\* arbitrary graphs have no use for
circleVars == <<code>>
simVars == <<phase, task, now, tb, runnable, iter, simResult,
             resumed, snapshot, woke, differed>>
idVars == <<idCounter, thread, made>>
shotVars == <<cycle, shot, trigs, outs>>
fifoVars == <<fifo, written, got>>
syncVars == <<sender, recv, sent, presented>>
uutVars == <<uut, trace>>
restVars == <<circleVars, simVars, idVars, shotVars, fifoVars, syncVars, uutVars>>

\* the signals and their call history
signalState == <<sig, aborted, lastCall, entry, returned>>
sigVars == <<signalState, restVars>>

\* variables the operations of a single signal leave alone
blockVars == <<returned>>

\* the state of a static check
checkState == <<stack, visits, seen, path, namespace, failures, result,
                names, loops, detector, walk, blocks>>
checkVars == <<checkState, restVars>>

\* the state of check_logic_loops that check_connected does not have
loopVars == <<names, loops, detector, walk, blocks>>

(***************************************************************************)
(* Signal  (src/rust-hdl-core/src/signal.rs)                               *)
(***************************************************************************)
\* T::default() of Clock (Clock(false)) and of Bits<W> (zero)
ClockDefault == FALSE
BitsDefault == 0

ClockValues == BOOLEAN
BitsValues == 0 .. MaxVal

\* impl Default for Signal
Signal_default(dflt, id) ==
    [next |-> dflt, val |-> dflt, prev |-> dflt,
     changed |-> FALSE, claimed |-> FALSE, id |-> id]

\* Signal<Out, T>::new_with_default
Signal_new_with_default(dflt, init, id) ==
    [next |-> dflt, val |-> init, prev |-> init,
     changed |-> TRUE, claimed |-> FALSE, id |-> id]

\* a changed flag that is raised but never cleared
Signal_update_all_sticky(sg) ==
    LET ch == sg.val /= sg.next
    IN  IF ch
        THEN [sg EXCEPT !.changed = TRUE, !.prev = sg.val, !.val = sg.next]
        ELSE sg

\* a commit that forgets to save the old value in prev
Signal_update_all_noprev(sg) ==
    LET ch == sg.val /= sg.next
    IN  IF ch
        THEN [sg EXCEPT !.changed = TRUE, !.val = sg.next]
        ELSE [sg EXCEPT !.changed = FALSE]

\* Block::update_all for Signal
Signal_update_all(sg) ==
    LET ch == sg.val /= sg.next
    IN  IF ch
        THEN [sg EXCEPT !.changed = TRUE, !.prev = sg.val, !.val = sg.next]
        ELSE [sg EXCEPT !.changed = FALSE]

\* a connect without the assertion: a second driver succeeds silently
Signal_connect_noassert(sg) ==
    [panic |-> FALSE, sg |-> [sg EXCEPT !.claimed = TRUE]]

\* Logic::connect for Signal: assert!(!self.claimed); self.claimed = true
Signal_connect(sg) ==
    IF sg.claimed
    THEN [panic |-> TRUE, sg |-> sg]
    ELSE [panic |-> FALSE, sg |-> [sg EXCEPT !.claimed = TRUE]]

\* a has_changed that compares the staged value with the current one
Signal_has_changed_stale(sg) == sg.val /= sg.next

\* Logic::has_changed for Signal
Signal_has_changed(sg) == sg.changed

\* an edge test that ignores the changed flag
pos_edge_level(sg) == sg.val /\ ~sg.prev

\* Signal<In, Clock>::pos_edge
pos_edge(sg) == sg.changed /\ sg.val /\ ~sg.prev

\* Signal<In, Clock>::neg_edge
neg_edge(sg) == sg.changed /\ ~sg.val /\ sg.prev

\* check_logic_loops is not running
NoLoopCheck ==
    /\ names = <<>>
    /\ loops = <<>>
    /\ detector = <<>>
    /\ walk = <<>>
    /\ blocks = <<>>

\* the state the later specifications add is not in use
NoCircle == code = <<>>
NoSim ==
    /\ phase = "Idle"
    /\ task = 0
    /\ now = 0
    /\ tb = <<>>
    /\ runnable = {}
    /\ iter = 0
    /\ simResult = "none"
    /\ resumed = <<>>
    /\ snapshot = <<>>
    /\ woke = <<>>
    /\ differed = FALSE
NoIds == idCounter = 0 /\ thread = <<>> /\ made = <<>>
NoShot == cycle = 0 /\ shot = <<>> /\ trigs = {} /\ outs = <<>>
NoFifo == fifo = <<>> /\ written = 0 /\ got = <<>>
NoSync == sender = <<>> /\ recv = <<>> /\ sent = <<>> /\ presented = <<>>
NoUut == uut = <<>> /\ trace = <<>>
NoRest == NoCircle /\ NoSim /\ NoIds /\ NoShot /\ NoFifo /\ NoSync /\ NoUut

\* no static check is running
NoCheck ==
    /\ stack = <<>>
    /\ visits = 0
    /\ seen = <<>>
    /\ path = <<>>
    /\ namespace = <<>>
    /\ failures = <<>>
    /\ result = "none"
    /\ NoLoopCheck

(***************************************************************************)
(* Specification SpecSignal: a clock signal and a data signal driven by    *)
(* writes to next, update_all and connect, in any order.                   *)
(***************************************************************************)
SignalNames == {"clock", "data"}

ValuesOf(s) == IF s = "clock" THEN ClockValues ELSE BitsValues

\* get_signal_id: GLOBAL_THREAD_COUNT starts at 1, fetch_add returns the old value
FirstSignalId == 1

InitSignal ==
    /\ \E init \in BitsValues :
         sig = [s \in SignalNames |->
                  IF s = "clock"
                  THEN Signal_default(ClockDefault, FirstSignalId)
                  ELSE Signal_new_with_default(BitsDefault, init, FirstSignalId + 1)]
    /\ aborted = FALSE
    /\ lastCall = [op |-> "new", s |-> "clock"]
    /\ entry = Signal_default(ClockDefault, FirstSignalId)
    /\ returned = 0
    /\ NoCheck
    /\ NoRest

\* the owning block (or a testbench) stages a value: signal.next = v
WriteNext(s, v) ==
    /\ ~aborted
    /\ sig' = [sig EXCEPT ![s].next = v]
    /\ lastCall' = [op |-> "write", s |-> s]
    /\ entry' = sig[s]
    /\ UNCHANGED <<aborted, blockVars, checkVars>>

\* one settle iteration on the signal
UpdateAll(s) ==
    /\ ~aborted
    /\ sig' = [sig EXCEPT ![s] = Signal_update_all(sig[s])]
    /\ lastCall' = [op |-> "update_all", s |-> s]
    /\ entry' = sig[s]
    /\ UNCHANGED <<aborted, blockVars, checkVars>>

\* a driver attaches to the signal
Connect(s) ==
    /\ ~aborted
    /\ LET r == Signal_connect(sig[s])
       IN  /\ sig' = [sig EXCEPT ![s] = r.sg]
           /\ aborted' = r.panic
    /\ lastCall' = [op |-> "connect", s |-> s]
    /\ entry' = sig[s]
    /\ UNCHANGED <<blockVars, checkVars>>

NextSignal ==
    \/ \E s \in SignalNames : \E v \in ValuesOf(s) : WriteNext(s, v)
    \/ \E s \in SignalNames : UpdateAll(s)
    \/ \E s \in SignalNames : Connect(s)

SpecSignal == InitSignal /\ [][NextSignal]_vars

(***************************************************************************)
(* Claims about Signal                                                     *)
(***************************************************************************)
\* the signal the last call acted on, as it is on return
Cur == sig[lastCall.s]

\* C1: after an update_all on the clock, pos_edge() is true exactly when
\* that call committed val = true over a previous val = false, and false
\* after every other update_all (one that commits nothing included).
C1_PosEdgeExactlyOnRisingCommit ==
    (lastCall.op = "update_all" /\ lastCall.s = "clock")
        => (pos_edge(Cur) <=> (entry.val = FALSE /\ Cur.val = TRUE))

\* C1 witness: a rising commit followed by an update_all that commits
\* nothing, after which pos_edge is false while val is still true.
C1_Witness ==
    /\ lastCall.op = "update_all" /\ lastCall.s = "clock"
    /\ entry.val = TRUE /\ entry.prev = FALSE /\ entry.changed
    /\ Cur.val = TRUE /\ ~pos_edge(Cur)

\* C2 (as stated): on return of update_all, changed <=> val /= next.
C2_ChangedIffValNeqNextOnReturn ==
    lastCall.op = "update_all" => (Cur.changed <=> (Cur.val /= Cur.next))

\* C2 (amended): on return of update_all, changed is true iff val and next
\* differed on entry to that call, that is iff the call committed a value.
C2_ChangedIffDifferedOnEntry ==
    lastCall.op = "update_all" => (Cur.changed <=> (entry.val /= entry.next))

\* C2 witness: update_all returns with changed raised although val = next.
C2_Witness ==
    /\ lastCall.op = "update_all"
    /\ Cur.changed /\ Cur.val = Cur.next /\ entry.val /= entry.next

\* C3: update_all commits next: on return val = next; prev is the old val
\* if they differed, else val and prev are untouched; next, claimed and id
\* are never modified.
C3_UpdateAllCommits ==
    lastCall.op = "update_all" =>
        /\ Cur.val = Cur.next
        /\ (entry.val /= entry.next => Cur.prev = entry.val)
        /\ (entry.val = entry.next => Cur.val = entry.val /\ Cur.prev = entry.prev)
        /\ Cur.next = entry.next
        /\ Cur.claimed = entry.claimed
        /\ Cur.id = entry.id

\* C3 witness: a commit that overwrites a prev different from the old val.
C3_Witness ==
    /\ lastCall.op = "update_all" /\ lastCall.s = "data"
    /\ entry.val /= entry.next /\ entry.prev /= entry.val
    /\ Cur.prev = entry.val /\ Cur.val = entry.next

\* C4: the first connect on a signal claims it, a connect on a claimed
\* signal panics on the assertion and changes nothing, and claimed is
\* never reset.
C4_ConnectReturn ==
    lastCall.op = "connect" =>
        IF entry.claimed
        THEN aborted /\ Cur = entry
        ELSE ~aborted /\ Cur.claimed

C4_AtMostOneDriver ==
    /\ []C4_ConnectReturn
    /\ [][\A s \in DOMAIN sig : sig[s].claimed => sig'[s].claimed]_vars

\* C4 witness: a second connect on a claimed signal has panicked.
C4_Witness ==
    lastCall.op = "connect" /\ entry.claimed /\ aborted /\ Cur.claimed

(***************************************************************************)
(* Specification SpecConnect: the block graph of RegisteredEdgeTristate    *)
(* (widgets/registered_edge_tristate.rs) under connect_all on the block    *)
(* and connect on single signals.  The DFF children contribute the signals *)
(* the parent drives (clock, d); their q output is driven inside DFF and   *)
(* takes no part in the parent's connect().                                *)
(***************************************************************************)
\* fields of RegisteredEdgeTristate, in declaration order
TristateSignals ==
    <<"bus", "write_enable", "write_data", "read_data", "clock",
      "dff_out.clock", "dff_out.d", "dff_in.clock", "dff_in.d">>

GraphSignals == {TristateSignals[i] : i \in 1 .. Len(TristateSignals)}

IsClockSignal(s) == s \in {"clock", "dff_out.clock", "dff_in.clock"}

\* the order of the connect() calls in RegisteredEdgeTristate::connect
TristateConnectOrder ==
    <<"dff_out.clock", "dff_in.clock", "dff_in.d", "dff_out.d", "bus", "read_data">>

DrivenSignals == {TristateConnectOrder[i] : i \in 1 .. Len(TristateConnectOrder)}

\* a sequence of signal.connect() calls; a panic ends it
RECURSIVE ConnectEach(_, _)
ConnectEach(g, order) ==
    IF order = <<>>
    THEN [panic |-> FALSE, g |-> g]
    ELSE LET r == Signal_connect(g[Head(order)])
         IN  IF r.panic
             THEN [panic |-> TRUE, g |-> g]
             ELSE ConnectEach([g EXCEPT ![Head(order)] = r.sg], Tail(order))

\* RegisteredEdgeTristate::connect
RegisteredEdgeTristate_connect(g) == ConnectEach(g, TristateConnectOrder)

\* Block::connect_all for Signal: nothing
Signal_connect_all(sg) == sg

\* connect_all of the block: connect_all of every child, then the block's
\* own connect() once
RegisteredEdgeTristate_connect_all(g) ==
    RegisteredEdgeTristate_connect([s \in DOMAIN g |-> Signal_connect_all(g[s])])

InitConnect ==
    /\ sig = [s \in GraphSignals |->
                Signal_default(IF IsClockSignal(s) THEN ClockDefault ELSE BitsDefault,
                               FirstSignalId - 1
                                 + CHOOSE i \in 1 .. Len(TristateSignals) :
                                       TristateSignals[i] = s)]
    /\ aborted = FALSE
    /\ lastCall = [op |-> "new", s |-> "uut"]
    /\ entry = sig
    /\ returned = 0
    /\ NoCheck
    /\ NoRest

\* uut.connect_all()
ConnectAll ==
    /\ ~aborted
    /\ returned < MaxConnectAll
    /\ LET r == RegisteredEdgeTristate_connect_all(sig)
       IN  /\ sig' = r.g
           /\ aborted' = r.panic
           /\ returned' = IF r.panic THEN returned ELSE returned + 1
    /\ lastCall' = [op |-> "connect_all", s |-> "uut"]
    /\ entry' = sig
    /\ UNCHANGED checkVars

NextConnect ==
    \/ ConnectAll
    \/ \E s \in GraphSignals : Connect(s)

SpecConnect == InitConnect /\ [][NextConnect]_vars

\* the last call was a connect_all made after an earlier one had returned
SecondConnectAll ==
    /\ lastCall.op = "connect_all"
    /\ (returned >= 2 \/ (returned >= 1 /\ aborted))

\* C5 (as stated): a second connect_all returns and leaves the graph as the
\* first one left it.
C5_ConnectAllIdempotent ==
    SecondConnectAll => (~aborted /\ sig = entry)

\* C5 (amended): a connect_all that returns has taken claimed from 0 to 1 on
\* every driven signal; a second connect_all panics on the assertion of
\* Signal::connect and leaves every signal as the first call left it, so
\* each driven signal's claimed goes 0 to 1 exactly once.
C5_ConnectAllReturn ==
    /\ (lastCall.op = "connect_all" /\ ~aborted) =>
           \A s \in DrivenSignals : ~entry[s].claimed /\ sig[s].claimed
    /\ SecondConnectAll =>
           /\ aborted
           /\ sig = entry
           /\ \A s \in DrivenSignals : sig[s].claimed

C5_SecondConnectAllPanics ==
    /\ []C5_ConnectAllReturn
    /\ [][\A s \in DrivenSignals : ~(sig[s].claimed /\ ~sig'[s].claimed)]_vars

\* C5 witness: connect_all returned once and the second call has panicked.
C5_Witness ==
    /\ SecondConnectAll /\ aborted /\ returned = 1
    /\ \A s \in DrivenSignals : sig[s].claimed

(***************************************************************************)
(* Block graph traversal: accept(name, probe).  A block opens a scope,     *)
(* visits its children (signals as atoms, blocks recursively) and closes   *)
(* the scope; an interface such as RAMWrite (widgets/ramrom/ram.rs) groups *)
(* its signals in a namespace.  The graph is the input of a check: it is   *)
(* produced child by child as the traversal reaches it.                    *)
(***************************************************************************)
TopName == "uut"
ChildNames == {"a", "uut"}
NamespaceNames == {"bus"}
\* AtomKind of the four signal directions In, Out, Local, InOut
AtomKinds == {"InputParameter", "OutputParameter", "LocalSignal", "InOutParameter"}

\* the signal fields a block may declare: one name for each direction
AtomDecls ==
    {[name |-> "I", kind |-> "InputParameter"],
     [name |-> "O", kind |-> "OutputParameter"],
     [name |-> "loc", kind |-> "LocalSignal"],
     [name |-> "io", kind |-> "InOutParameter"]}

Top(st) == st[Len(st)]
Pop(st) == SubSeq(st, 1, Len(st) - 1)

\* names of the scopes a position is nested in, outermost first
ScopesOf(st) ==
    LET sc == SelectSeq(st, LAMBDA f : f.kind = "scope")
    IN  [i \in 1 .. Len(sc) |-> sc[i].name]

\* names of the namespaces entered since the innermost scope
RECURSIVE NamespacesOf(_)
NamespacesOf(st) ==
    IF st = <<>> \/ Top(st).kind = "scope"
    THEN <<>>
    ELSE Append(NamespacesOf(Pop(st)), Top(st).name)

\* Signal as an Atom: id(), kind(), connected()
AtomOf(sg, kind) == [id |-> sg.id, kind |-> kind, connected |-> sg.claimed]

\* the next signal of the graph, in construction order
NewAtomId == FirstSignalId + visits

\* accept of a block: visit_start_scope
AcceptStartScope(name) ==
    /\ result = "none"
    /\ \/ stack = <<>> /\ visits = 0 /\ name = TopName
       \/ /\ stack /= <<>>
          /\ Top(stack).kind = "scope"
          /\ Len(stack) < MaxDepth
          /\ name \in ChildNames
    /\ stack' = Append(stack, [kind |-> "scope", name |-> name])
    /\ UNCHANGED <<visits, seen>>

\* accept of an interface: visit_start_namespace
AcceptStartNamespace(name) ==
    /\ result = "none"
    /\ stack /= <<>>
    /\ Len(stack) < MaxDepth
    /\ stack' = Append(stack, [kind |-> "namespace", name |-> name])
    /\ UNCHANGED <<visits, seen>>

\* Signal::accept: probe.visit_atom(name, self)
AcceptAtom(name, kind, sg) ==
    /\ result = "none"
    /\ stack /= <<>>
    /\ visits < MaxAtoms
    /\ visits' = visits + 1
    /\ seen' = IF sg.claimed
               THEN seen
               ELSE Append(seen, [id |-> sg.id, kind |-> kind, claimed |-> sg.claimed,
                                  name |-> name, scopes |-> ScopesOf(stack),
                                  ns |-> NamespacesOf(stack)])
    /\ UNCHANGED stack

AcceptEndNamespace ==
    /\ result = "none"
    /\ stack /= <<>>
    /\ Top(stack).kind = "namespace"
    /\ stack' = Pop(stack)
    /\ UNCHANGED <<visits, seen>>

AcceptEndScope ==
    /\ result = "none"
    /\ stack /= <<>>
    /\ Top(stack).kind = "scope"
    /\ stack' = Pop(stack)
    /\ UNCHANGED <<visits, seen>>

(***************************************************************************)
(* NamedPath: a list of names, printed with dots                           *)
(***************************************************************************)
NamedPath_push(p, x) == Append(p, x)
NamedPath_pop(p) == IF p = <<>> THEN p ELSE Pop(p)
NamedPath_reset(p) == <<>>
NamedPath_is_empty(p) == Len(p) = 0

\* a string is the sequence of its pieces: names and separators
RECURSIVE NamedPath_to_string(_)
NamedPath_to_string(p) ==
    IF p = <<>> THEN <<>>
    ELSE IF Len(p) = 1 THEN <<p[1]>>
    ELSE <<p[1], ".">> \o NamedPath_to_string(Tail(p))

(***************************************************************************)
(* check_connected  (src/rust_hdl_lib_core/src/check_connected.rs)         *)
(***************************************************************************)
\* struct CheckConnected
CheckConnected == [path |-> path, namespace |-> namespace, failures |-> failures]

\* CheckConnected::default()
CheckConnected_default == [path |-> <<>>, namespace |-> <<>>, failures |-> <<>>]

\* OpenMap::insert
OpenMap_insert(m, id, pn) ==
    [i \in DOMAIN m \cup {id} |-> IF i = id THEN pn ELSE m[i]]

CheckConnected_visit_start_scope(v, name) ==
    [v EXCEPT !.path = NamedPath_push(v.path, name),
              !.namespace = NamedPath_reset(v.namespace)]

CheckConnected_visit_start_namespace(v, name) ==
    [v EXCEPT !.namespace = NamedPath_push(v.namespace, name)]

\* a visit_atom that exempts inputs in every scope
CheckConnected_visit_atom_anyscope(v, name, signal) ==
    LET signal_is_connected == signal.connected
        signal_is_input == signal.kind \in {"InputParameter", "InOutParameter"}
    IN  IF ~(signal_is_connected \/ signal_is_input)
        THEN [v EXCEPT !.failures =
                 OpenMap_insert(v.failures, signal.id,
                     [path |-> NamedPath_to_string(v.path),
                      name |-> IF NamedPath_is_empty(v.namespace)
                               THEN <<name>>
                               ELSE NamedPath_to_string(v.namespace) \o <<"$", name>>])]
        ELSE v

\* a visit_atom that reports the bare name inside a namespace
CheckConnected_visit_atom_barename(v, name, signal) ==
    LET is_top_scope == NamedPath_to_string(v.path) = <<"uut">>
        signal_is_connected == signal.connected
        signal_is_input == signal.kind \in {"InputParameter", "InOutParameter"}
    IN  IF ~(signal_is_connected \/ (signal_is_input /\ is_top_scope))
        THEN [v EXCEPT !.failures =
                 OpenMap_insert(v.failures, signal.id,
                     [path |-> NamedPath_to_string(v.path), name |-> <<name>>])]
        ELSE v

CheckConnected_visit_atom(v, name, signal) ==
    LET is_top_scope == NamedPath_to_string(v.path) = <<"uut">>
        signal_is_connected == signal.connected
        signal_is_input == signal.kind \in {"InputParameter", "InOutParameter"}
    IN  IF ~(signal_is_connected \/ (signal_is_input /\ is_top_scope))
        THEN [v EXCEPT !.failures =
                 OpenMap_insert(v.failures, signal.id,
                     [path |-> NamedPath_to_string(v.path),
                      name |-> IF NamedPath_is_empty(v.namespace)
                               THEN <<name>>
                               ELSE NamedPath_to_string(v.namespace) \o <<"$", name>>])]
        ELSE v

CheckConnected_visit_end_namespace(v) ==
    [v EXCEPT !.namespace = NamedPath_pop(v.namespace)]

CheckConnected_visit_end_scope(v) ==
    [v EXCEPT !.path = NamedPath_pop(v.path)]

\* the return value of check_connected once accept has returned
check_connected_result(v) ==
    IF v.failures = <<>> THEN "Ok" ELSE "Err"

SetCheckConnected(v) ==
    /\ path' = v.path
    /\ namespace' = v.namespace
    /\ failures' = v.failures

(***************************************************************************)
(* Specification SpecConnected: check_connected(uut) over every block      *)
(* graph within the bounds.                                                *)
(***************************************************************************)
InitConnected ==
    /\ sig = <<>>
    /\ aborted = FALSE
    /\ lastCall = [op |-> "check_connected", s |-> TopName]
    /\ entry = <<>>
    /\ returned = 0
    /\ stack = <<>>
    /\ visits = 0
    /\ seen = <<>>
    /\ path = CheckConnected_default.path
    /\ namespace = CheckConnected_default.namespace
    /\ failures = CheckConnected_default.failures
    /\ result = "none"
    /\ NoLoopCheck
    /\ NoRest

CCStartScope(name) ==
    /\ AcceptStartScope(name)
    /\ SetCheckConnected(CheckConnected_visit_start_scope(CheckConnected, name))
    /\ UNCHANGED <<sigVars, result, loopVars>>

CCStartNamespace(name) ==
    /\ AcceptStartNamespace(name)
    /\ SetCheckConnected(CheckConnected_visit_start_namespace(CheckConnected, name))
    /\ UNCHANGED <<sigVars, result, loopVars>>

CCVisitAtom(name, kind, claimed) ==
    LET sg == [Signal_default(BitsDefault, NewAtomId) EXCEPT !.claimed = claimed]
    IN  /\ AcceptAtom(name, kind, sg)
        /\ SetCheckConnected(CheckConnected_visit_atom(CheckConnected, name, AtomOf(sg, kind)))
        /\ UNCHANGED <<sigVars, result, loopVars>>

CCEndNamespace ==
    /\ AcceptEndNamespace
    /\ SetCheckConnected(CheckConnected_visit_end_namespace(CheckConnected))
    /\ UNCHANGED <<sigVars, result, loopVars>>

\* visit_end_scope; when it closes the top scope accept returns and
\* check_connected returns its result
CCEndScope ==
    /\ AcceptEndScope
    /\ LET v == CheckConnected_visit_end_scope(CheckConnected)
       IN  /\ SetCheckConnected(v)
           /\ result' = IF stack' = <<>> THEN check_connected_result(v) ELSE "none"
    /\ UNCHANGED <<sigVars, loopVars>>

NextConnected ==
    \/ \E name \in ChildNames \cup {TopName} : CCStartScope(name)
    \/ \E name \in NamespaceNames : CCStartNamespace(name)
    \/ \E d \in AtomDecls, claimed \in BOOLEAN :
           CCVisitAtom(d.name, d.kind, claimed)
    \/ CCEndNamespace
    \/ CCEndScope

SpecConnected == InitConnected /\ [][NextConnected]_vars

(***************************************************************************)
(* Claims about check_connected                                            *)
(***************************************************************************)
\* a list of names written with dots between them
Dotted(parts) ==
    [i \in 1 .. (2 * Len(parts) - 1) |->
        IF i % 2 = 1 THEN parts[(i + 1) \div 2] ELSE "."]

InputKinds == {"InputParameter", "InOutParameter"}

\* the visited atom is an input of the top-level scope
TopInput(a) == a.kind \in InputKinds /\ Len(a.scopes) = 1

\* visited atoms that are open: unclaimed and not an input of the top scope
OpenAtoms == {i \in 1 .. Len(seen) : ~seen[i].claimed /\ ~TopInput(seen[i])}

\* the pathed name of a visited atom
PathedNameOf(a) ==
    [path |-> Dotted(a.scopes),
     name |-> IF a.ns = <<>> THEN <<a.name>> ELSE Dotted(a.ns) \o <<"$", a.name>>]

\* C6: check_connected returns Err(OpenSignal) exactly when it visited an
\* unclaimed atom that is not an Input/InOut of the top-level scope, and the
\* error holds one entry per such atom with its dotted scope path and its
\* name, prefixed with the namespace when inside one; otherwise Ok.
C6_OpenSignalExactly ==
    result /= "none" =>
        /\ (result = "Err" <=> OpenAtoms /= {})
        /\ (result = "Ok" <=> OpenAtoms = {})
        /\ DOMAIN failures = {seen[i].id : i \in OpenAtoms}
        /\ \A i \in OpenAtoms : failures[seen[i].id] = PathedNameOf(seen[i])

\* C6 witness: a top-level block with an unclaimed Input I and an unclaimed
\* Output O: the error names uut.O and not I.
C6_Witness ==
    /\ result = "Err"
    /\ visits = 2 /\ Len(seen) = 2
    /\ seen[1].name = "I" /\ seen[1].kind = "InputParameter" /\ ~seen[1].claimed
    /\ seen[1].scopes = <<"uut">>
    /\ seen[2].name = "O" /\ seen[2].kind = "OutputParameter" /\ ~seen[2].claimed
    /\ seen[2].scopes = <<"uut">> /\ seen[2].ns = <<>>
    /\ DOMAIN failures = {seen[2].id}
    /\ failures[seen[2].id] = [path |-> <<"uut">>, name |-> <<"O">>]

\* C7: an unclaimed Input or InOut atom of a nested block is reported as
\* open and makes the check fail, while an unclaimed Input or InOut atom of
\* the top scope is exempt, also when it is visited after a nested block
\* has been entered and left.
C7_InputExemptionOnlyAtTop ==
    /\ \A i \in 1 .. Len(seen) :
          (seen[i].kind \in InputKinds /\ ~seen[i].claimed) =>
              IF Len(seen[i].scopes) > 1
              THEN seen[i].id \in DOMAIN failures
                   /\ failures[seen[i].id].path = Dotted(seen[i].scopes)
              ELSE seen[i].id \notin DOMAIN failures
    /\ (result /= "none" /\ \E i \in 1 .. Len(seen) :
            seen[i].kind \in InputKinds /\ ~seen[i].claimed /\ Len(seen[i].scopes) > 1)
          => result = "Err"

\* C7 witness: the check failed on the undriven input of a nested block
\* named like the top, and an undriven top-scope input visited after that
\* block was left is not reported.
C7_Witness ==
    /\ result = "Err"
    /\ Len(seen) = 2
    /\ seen[1].kind = "InputParameter" /\ ~seen[1].claimed
    /\ seen[1].scopes = <<"uut", "uut">>
    /\ seen[2].kind = "InOutParameter" /\ ~seen[2].claimed
    /\ seen[2].scopes = <<"uut">>
    /\ DOMAIN failures = {seen[1].id}

(***************************************************************************)
(* HDL IR of a block's behaviour, in the order the VerilogVisitor walks    *)
(* it.  A statement is an assignment l = r, a slice assignment             *)
(* base[offset +: width] = replacement, or the test of a conditional       *)
(* (the statements of its branches follow it).  An expression is the       *)
(* sequence of the signals it refers to; a literal refers to none, and the *)
(* offset of a slice assignment is a literal.  A signal is named by its    *)
(* field path, with "$next" appended when it is the staged value.          *)
(***************************************************************************)
\* the signal fields of the blocks handed to check_logic_loops
LoopDecls ==
    {[name |-> "in1", kind |-> "InputParameter"],
     [name |-> "loc", kind |-> "LocalSignal"],
     [name |-> "out", kind |-> "OutputParameter"]}

\* the block fields of the blocks handed to check_logic_loops
LoopChildNames == {"a"}

\* Verilog: what hdl() returns
VerilogKinds == {"Empty", "Combinatorial", "Custom", "Wrapper"}

\* self.x.val() and self.x.next in the IR
ValRef(n) == <<n>>
NextRef(n) == <<n, "$next">>

\* names a block with signals decls can read, and names it can assign
Readable(decls) == {d.name : d \in decls}
Writable(decls) ==
    {d.name : d \in {e \in decls : e.kind \in {"LocalSignal", "OutputParameter"}}}

\* expressions over the block's signals
Exprs(decls) == {<<>>} \cup {<<ValRef(n)>> : n \in Readable(decls)}

\* the statements a block with signals decls can contain
Statements(decls) ==
    {[stmt |-> "assign", l |-> <<NextRef(n)>>, r |-> e] :
         n \in Writable(decls), e \in Exprs(decls)}
    \cup {[stmt |-> "slice", base |-> <<NextRef(n)>>, offset |-> <<>>, replacement |-> e] :
         n \in Writable(decls), e \in Exprs(decls)}
    \cup {[stmt |-> "if", test |-> e] : e \in Exprs(decls) \ {<<>>}}

(***************************************************************************)
(* check_logic_loops  (src/rust_hdl_lib_core/src/check_logic_loops.rs)     *)
(***************************************************************************)
\* VerilogLogicLoopDetector::default()
VerilogLogicLoopDetector_default ==
    [local_vars_written |-> {}, mode |-> "Ignore", violations |-> <<>>]

\* c.replace("$next", "")
StripNext(c) == SelectSeq(c, LAMBDA piece : piece /= "$next")

\* a visit_signal that keeps the "$next" suffix of a written name
Detector_visit_signal_keepnext(det, c) ==
    LET myname == StripNext(c)
    IN  CASE det.mode = "Ignore" -> det
          [] det.mode = "Write" ->
                [det EXCEPT !.local_vars_written = @ \cup {c}]
          [] det.mode = "Read" ->
                IF myname \notin det.local_vars_written
                THEN [det EXCEPT !.violations = Append(@, myname)]
                ELSE det

\* VerilogLogicLoopDetector::visit_signal
Detector_visit_signal(det, c) ==
    LET myname == StripNext(c)
    IN  CASE det.mode = "Ignore" -> det
          [] det.mode = "Write" ->
                [det EXCEPT !.local_vars_written = @ \cup {myname}]
          [] det.mode = "Read" ->
                IF myname \notin det.local_vars_written
                THEN [det EXCEPT !.violations = Append(@, myname)]
                ELSE det

\* VerilogVisitor::visit_expression: visit_signal on every signal of e
RECURSIVE Detector_visit_expression(_, _)
Detector_visit_expression(det, e) ==
    IF e = <<>> THEN det
    ELSE Detector_visit_expression(Detector_visit_signal(det, Head(e)), Tail(e))

\* VerilogLogicLoopDetector::visit_assignment
Detector_visit_assignment(det, l, r) ==
    LET current_mode == det.mode
        d1 == Detector_visit_expression([det EXCEPT !.mode = "Read"], r)
        d2 == Detector_visit_expression([d1 EXCEPT !.mode = "Write"], l)
    IN  [d2 EXCEPT !.mode = current_mode]

\* VerilogLogicLoopDetector::visit_slice_assignment
Detector_visit_slice_assignment(det, base, offset, replacement) ==
    LET current_mode == det.mode
        d1 == Detector_visit_expression([det EXCEPT !.mode = "Read"], offset)
        d2 == Detector_visit_expression(d1, replacement)
        d3 == Detector_visit_expression([d2 EXCEPT !.mode = "Write"], base)
    IN  [d3 EXCEPT !.mode = current_mode]

\* VerilogVisitor::visit_statement: dispatch on the statement
Detector_visit_statement(det, s) ==
    CASE s.stmt = "assign" -> Detector_visit_assignment(det, s.l, s.r)
      [] s.stmt = "slice" ->
            Detector_visit_slice_assignment(det, s.base, s.offset, s.replacement)
      [] s.stmt = "if" -> Detector_visit_expression(det, s.test)

\* a match on hdl() that takes every kind for Combinatorial
HdlIsWalked_anykind(kind) == TRUE

\* match &uut.hdl(): only Verilog::Combinatorial(code) is walked
HdlIsWalked(kind) == kind = "Combinatorial"

\* get_logic_loop_candidates, given the kind of hdl() and the detector
\* after det.visit_block(code)
get_logic_loop_candidates(kind, d) ==
    IF HdlIsWalked(kind)
    THEN IF d.violations = <<>> THEN <<>> ELSE d.violations
    ELSE <<>>

\* struct LocalVars
LocalVars == [path |-> path, names |-> names, loops |-> loops]

\* LocalVars::default()
LocalVars_default == [path |-> <<>>, names |-> <<>>, loops |-> <<>>]

\* LocalVars::update_loops
RECURSIVE LocalVars_update_loops(_, _)
LocalVars_update_loops(v, candidates) ==
    IF candidates = <<>> THEN v
    ELSE LET candidate == Head(candidates)
             v1 == IF candidate \in Top(v.names)
                   THEN [v EXCEPT !.loops =
                            Append(@, [path |-> NamedPath_to_string(v.path),
                                       name |-> candidate])]
                   ELSE v
         IN  LocalVars_update_loops(v1, Tail(candidates))

LocalVars_visit_start_scope(v, name) ==
    [v EXCEPT !.path = NamedPath_push(v.path, name), !.names = Append(@, {})]

LocalVars_visit_start_namespace(v, name) ==
    [v EXCEPT !.path = NamedPath_push(v.path, name), !.names = Append(@, {})]

\* a visit_atom that takes only Local signals for the block's own
LocalVars_visit_atom_localonly(v, name, signal) ==
    IF signal.kind \in {"LocalSignal"}
    THEN [v EXCEPT !.names = [@ EXCEPT ![Len(@)] = @ \cup {<<name>>}]]
    ELSE v

LocalVars_visit_atom(v, name, signal) ==
    IF signal.kind \in {"LocalSignal", "OutputParameter"}
    THEN [v EXCEPT !.names = [@ EXCEPT ![Len(@)] = @ \cup {<<name>>}]]
    ELSE v

LocalVars_visit_end_namespace(v) ==
    [v EXCEPT !.names = Pop(@), !.path = NamedPath_pop(@)]

\* LocalVars::visit_end_scope, given get_logic_loop_candidates(node)
LocalVars_visit_end_scope(v, candidates) ==
    LET v1 == LocalVars_update_loops(v, candidates)
    IN  [v1 EXCEPT !.path = NamedPath_pop(@), !.names = Pop(@)]

\* the return value of check_logic_loops once accept has returned
check_logic_loops_result(v) ==
    IF v.loops = <<>> THEN "Ok" ELSE "Err"

SetLocalVars(v) ==
    /\ path' = v.path
    /\ names' = v.names
    /\ loops' = v.loops

(***************************************************************************)
(* Specification SpecLoops: check_logic_loops(uut) over every block graph  *)
(* within the bounds.  visit_end_scope takes hdl() of the block, walks its *)
(* statements one visit at a time (the body of a Custom or Wrapper block   *)
(* is text that nothing visits), and then files the candidates.            *)
(***************************************************************************)
\* the signal a reference names
RefName(ref) == ref[1]
RefNames(e) == {RefName(e[i]) : i \in 1 .. Len(e)}

\* the signals a statement reads, and the signals it assigns
ReadsOf(s) ==
    CASE s.stmt = "assign" -> RefNames(s.r)
      [] s.stmt = "slice" -> RefNames(s.offset) \cup RefNames(s.replacement)
      [] s.stmt = "if" -> RefNames(s.test)

WritesOf(s) ==
    CASE s.stmt = "assign" -> RefNames(s.l)
      [] s.stmt = "slice" -> RefNames(s.base)
      [] s.stmt = "if" -> {}

\* no statement of the block has been seen yet
NewWalk(kind) ==
    [hdl |-> kind, len |-> 0, written |-> {}, reads |-> {}, rbw |-> {}, wbr |-> {}]

NoWalk == NewWalk("none")

\* the block's next statement is s: of its Local and Output signals (own),
\*   reads: those read so far;  written: those assigned so far;
\*   rbw: those read where no earlier statement had written them;
\*   wbr: those assigned before their first read
WalkOn(w, own, s) ==
    LET r == ReadsOf(s) \cap own
    IN  [w EXCEPT !.len = @ + 1,
                  !.reads = @ \cup r,
                  !.written = @ \cup WritesOf(s),
                  !.rbw = @ \cup (r \ w.written),
                  !.wbr = @ \cup (WritesOf(s) \ (w.reads \cup r))]

\* what is kept of a block once its scope has closed
BlockSummary(scopes, w) ==
    [path |-> scopes, hdl |-> w.hdl, len |-> w.len,
     reads |-> w.reads, rbw |-> w.rbw, wbr |-> w.wbr]

RECURSIVE SumLen(_)
SumLen(bs) == IF bs = <<>> THEN 0 ELSE Head(bs).len + SumLen(Tail(bs))

\* statements in the graph so far
StmtCount == SumLen(blocks) + walk.len

NewFrame(kind, name) ==
    [kind |-> kind, name |-> name, decls |-> {}, children |-> {}]

\* variables check_logic_loops has no use for
LoopIdle == <<sigVars, seen, namespace, failures>>

InitLoops ==
    /\ sig = <<>>
    /\ aborted = FALSE
    /\ lastCall = [op |-> "check_logic_loops", s |-> TopName]
    /\ entry = <<>>
    /\ returned = 0
    /\ stack = <<>>
    /\ visits = 0
    /\ seen = <<>>
    /\ path = LocalVars_default.path
    /\ namespace = <<>>
    /\ failures = <<>>
    /\ result = "none"
    /\ names = LocalVars_default.names
    /\ loops = LocalVars_default.loops
    /\ detector = VerilogLogicLoopDetector_default
    /\ walk = NoWalk
    /\ blocks = <<>>
    /\ NoRest

\* accept of a block: visit_start_scope
LVStartScope(name) ==
    /\ result = "none"
    /\ walk = NoWalk
    /\ \/ /\ stack = <<>> /\ blocks = <<>> /\ name = TopName
          /\ stack' = <<NewFrame("scope", name)>>
       \/ /\ stack /= <<>>
          /\ Top(stack).kind = "scope"
          /\ Len(stack) < MaxDepth
          /\ name \in LoopChildNames \ Top(stack).children
          /\ stack' = Append([stack EXCEPT ![Len(stack)].children = @ \cup {name}],
                             NewFrame("scope", name))
    /\ SetLocalVars(LocalVars_visit_start_scope(LocalVars, name))
    /\ UNCHANGED <<LoopIdle, visits, result, detector, walk, blocks>>

\* accept of an interface: visit_start_namespace
LVStartNamespace(name) ==
    /\ result = "none"
    /\ walk = NoWalk
    /\ stack /= <<>>
    /\ Len(stack) < MaxDepth
    /\ name \notin Top(stack).children
    /\ stack' = Append([stack EXCEPT ![Len(stack)].children = @ \cup {name}],
                       NewFrame("namespace", name))
    /\ SetLocalVars(LocalVars_visit_start_namespace(LocalVars, name))
    /\ UNCHANGED <<LoopIdle, visits, result, detector, walk, blocks>>

\* Signal::accept: probe.visit_atom(name, self)
LVVisitAtom(d) ==
    /\ result = "none"
    /\ walk = NoWalk
    /\ stack /= <<>>
    /\ d.name \notin Readable(Top(stack).decls)
    /\ visits < MaxAtoms
    /\ visits' = visits + 1
    /\ stack' = [stack EXCEPT ![Len(stack)].decls = @ \cup {d}]
    /\ SetLocalVars(LocalVars_visit_atom(LocalVars, d.name,
           AtomOf(Signal_default(BitsDefault, NewAtomId), d.kind)))
    /\ UNCHANGED <<LoopIdle, result, detector, walk, blocks>>

LVEndNamespace ==
    /\ result = "none"
    /\ walk = NoWalk
    /\ stack /= <<>>
    /\ Top(stack).kind = "namespace"
    /\ stack' = Pop(stack)
    /\ SetLocalVars(LocalVars_visit_end_namespace(LocalVars))
    /\ UNCHANGED <<LoopIdle, visits, result, detector, walk, blocks>>

\* visit_end_scope, first step: get_logic_loop_candidates takes node.hdl()
\* and a fresh detector
LVEndScopeHdl(kind) ==
    /\ result = "none"
    /\ walk = NoWalk
    /\ stack /= <<>>
    /\ Top(stack).kind = "scope"
    /\ walk' = NewWalk(kind)
    /\ detector' = VerilogLogicLoopDetector_default
    /\ UNCHANGED <<LoopIdle, visits, result, stack, path, names, loops, blocks>>

\* visit_end_scope, det.visit_block(code): the next statement of the block
LVWalkStatement ==
    /\ result = "none"
    /\ walk.hdl \notin {"none", "Empty"}
    /\ StmtCount < MaxStmts
    /\ \E s \in Statements(Top(stack).decls) :
          /\ detector' = IF HdlIsWalked(walk.hdl) THEN Detector_visit_statement(detector, s) ELSE detector
          /\ walk' = WalkOn(walk, Writable(Top(stack).decls), s)
    /\ UNCHANGED <<LoopIdle, visits, result, stack, path, names, loops, blocks>>

\* visit_end_scope, last step: update_loops with the candidates, pop; when
\* it closes the top scope accept returns and check_logic_loops returns
LVEndScope ==
    /\ result = "none"
    /\ walk /= NoWalk
    /\ LET v == LocalVars_visit_end_scope(LocalVars,
                    get_logic_loop_candidates(walk.hdl, detector))
       IN  /\ SetLocalVars(v)
           /\ result' = IF Len(stack) = 1 THEN check_logic_loops_result(v) ELSE "none"
    /\ blocks' = Append(blocks, BlockSummary(ScopesOf(stack), walk))
    /\ stack' = Pop(stack)
    /\ walk' = NoWalk
    /\ detector' = VerilogLogicLoopDetector_default
    /\ UNCHANGED <<LoopIdle, visits>>

NextLoops ==
    \/ \E name \in LoopChildNames \cup {TopName} : LVStartScope(name)
    \/ \E name \in NamespaceNames : LVStartNamespace(name)
    \/ \E d \in LoopDecls : LVVisitAtom(d)
    \/ LVEndNamespace
    \/ \E kind \in VerilogKinds : LVEndScopeHdl(kind)
    \/ LVWalkStatement
    \/ LVEndScope

SpecLoops == InitLoops /\ [][NextLoops]_vars

(***************************************************************************)
(* Claims about check_logic_loops                                          *)
(***************************************************************************)
Reported(scopes, n) ==
    \E k \in 1 .. Len(loops) : loops[k] = [path |-> Dotted(scopes), name |-> <<n>>]

CombBlocks == {i \in 1 .. Len(blocks) : blocks[i].hdl = "Combinatorial"}

\* C8: every Local or Output signal that a combinational block reads where
\* no earlier statement of the block has written it is listed in LogicLoops
\* under the block's dotted path, and the check returns Ok only if no block
\* has such a read.
C8_EveryReadBeforeWriteReported ==
    result /= "none" =>
        /\ \A i \in CombBlocks : \A n \in blocks[i].rbw : Reported(blocks[i].path, n)
        /\ (result = "Ok" => \A i \in CombBlocks : blocks[i].rbw = {})
        /\ ((\A i \in CombBlocks : blocks[i].rbw = {}) => result = "Ok")

\* C9: a signal that a combinational block assigns before its first read
\* is never reported, whatever reads it later.
C9_WriteBeforeReadPermitted ==
    \A i \in CombBlocks : \A n \in blocks[i].wbr : ~Reported(blocks[i].path, n)

\* C9 witness: the top block is combinational, assigns loc and out first and
\* reads loc afterwards, and the check returned Ok.
C9_Witness ==
    /\ result = "Ok"
    /\ Len(blocks) = 1
    /\ blocks[1].hdl = "Combinatorial"
    /\ blocks[1].wbr = {"loc", "out"} /\ blocks[1].reads = {"loc"}

\* C10: a block whose hdl() is not Combinatorial contributes no entry, even
\* if its behaviour reads one of its Local or Output signals before writing it.
C10_NonCombinationalExempt ==
    \A i \in 1 .. Len(blocks) :
        blocks[i].hdl /= "Combinatorial" =>
            \A k \in 1 .. Len(loops) : loops[k].path /= Dotted(blocks[i].path)

\* C10 witness: a Wrapper block that reads loc before writing it went
\* through the check, which returned Ok.
C10_Witness ==
    /\ result = "Ok"
    /\ Len(blocks) = 1
    /\ blocks[1].hdl = "Wrapper"
    /\ "loc" \in blocks[1].rbw

(***************************************************************************)
(* Specification SpecCircle: check_logic_loops on a block with the fields  *)
(* of Circle, the example of the check's documentation (in1: In, loc:      *)
(* Local, out: Out), whose combinational update is any sequence of at most *)
(* MaxCircleStmts statements over these signals; Circle's own update is    *)
(* one of them.                                                            *)
(***************************************************************************)
\* statements in the update of the block
MaxCircleStmts == 2

\* struct Circle: the fields in declaration order
CircleFields ==
    <<[name |-> "in1", kind |-> "InputParameter"],
      [name |-> "loc", kind |-> "LocalSignal"],
      [name |-> "out", kind |-> "OutputParameter"]>>

CircleDecls == {CircleFields[i] : i \in 1 .. Len(CircleFields)}

\* Circle::update:  self.loc.next = self.out.val();  self.out.next = self.loc.val();
CircleUpdate ==
    <<[stmt |-> "assign", l |-> <<NextRef("loc")>>, r |-> <<ValRef("out")>>],
      [stmt |-> "assign", l |-> <<NextRef("out")>>, r |-> <<ValRef("loc")>>]>>

\* variables the check of this block has no use for
CircleIdle == <<signalState, seen, namespace, failures, simVars, idVars, shotVars, fifoVars, syncVars, uutVars>>

InitCircle ==
    /\ sig = <<>>
    /\ aborted = FALSE
    /\ lastCall = [op |-> "check_logic_loops", s |-> TopName]
    /\ entry = <<>>
    /\ returned = 0
    /\ stack = <<>>
    /\ visits = 0
    /\ seen = <<>>
    /\ path = LocalVars_default.path
    /\ namespace = <<>>
    /\ failures = <<>>
    /\ result = "none"
    /\ names = LocalVars_default.names
    /\ loops = LocalVars_default.loops
    /\ detector = VerilogLogicLoopDetector_default
    /\ walk = NoWalk
    /\ blocks = <<>>
    /\ code = <<>>
    /\ NoSim /\ NoIds /\ NoShot /\ NoFifo /\ NoSync /\ NoUut

\* uut.accept("uut", &mut visitor): visit_start_scope
CircleStartScope ==
    /\ result = "none"
    /\ stack = <<>>
    /\ blocks = <<>>
    /\ stack' = <<NewFrame("scope", TopName)>>
    /\ SetLocalVars(LocalVars_visit_start_scope(LocalVars, TopName))
    /\ UNCHANGED <<CircleIdle, visits, result, detector, walk, blocks, code>>

\* the next field of the block: Signal::accept, visit_atom
CircleVisitAtom ==
    /\ result = "none"
    /\ stack /= <<>>
    /\ walk = NoWalk
    /\ visits < Len(CircleFields)
    /\ LET d == CircleFields[visits + 1]
       IN  /\ stack' = [stack EXCEPT ![Len(stack)].decls = @ \cup {d}]
           /\ SetLocalVars(LocalVars_visit_atom(LocalVars, d.name,
                  AtomOf(Signal_default(BitsDefault, NewAtomId), d.kind)))
    /\ visits' = visits + 1
    /\ UNCHANGED <<CircleIdle, result, detector, walk, blocks, code>>

\* visit_end_scope, first step: hdl() of an update under #[hdl_gen] is
\* Verilog::Combinatorial
CircleEndScopeHdl ==
    /\ result = "none"
    /\ stack /= <<>>
    /\ walk = NoWalk
    /\ visits = Len(CircleFields)
    /\ walk' = NewWalk("Combinatorial")
    /\ detector' = VerilogLogicLoopDetector_default
    /\ UNCHANGED <<CircleIdle, visits, result, stack, path, names, loops, blocks, code>>

\* visit_end_scope, det.visit_block(code): the next statement of the update
CircleWalkStatement ==
    /\ result = "none"
    /\ walk /= NoWalk
    /\ Len(code) < MaxCircleStmts
    /\ \E s \in Statements(CircleDecls) :
          /\ detector' = IF HdlIsWalked(walk.hdl)
                         THEN Detector_visit_statement(detector, s)
                         ELSE detector
          /\ walk' = WalkOn(walk, Writable(CircleDecls), s)
          /\ code' = Append(code, s)
    /\ UNCHANGED <<CircleIdle, visits, result, stack, path, names, loops, blocks>>

\* visit_end_scope, last step; accept and check_logic_loops return
CircleEndScope ==
    /\ result = "none"
    /\ walk /= NoWalk
    /\ LET v == LocalVars_visit_end_scope(LocalVars,
                    get_logic_loop_candidates(walk.hdl, detector))
       IN  /\ SetLocalVars(v)
           /\ result' = check_logic_loops_result(v)
    /\ blocks' = Append(blocks, BlockSummary(ScopesOf(stack), walk))
    /\ stack' = Pop(stack)
    /\ walk' = NoWalk
    /\ detector' = VerilogLogicLoopDetector_default
    /\ UNCHANGED <<CircleIdle, visits, code>>

NextCircle ==
    \/ CircleStartScope
    \/ CircleVisitAtom
    \/ CircleEndScopeHdl
    \/ CircleWalkStatement
    \/ CircleEndScope

SpecCircle == InitCircle /\ [][NextCircle]_vars

\* C11: for the block whose update is `loc.next = out.val(); out.next =
\* loc.val()`, check_logic_loops returns Err(LogicLoops) with at least one
\* entry, and every entry names out or loc under the path uut.
C11_CircleFails ==
    (result /= "none" /\ code = CircleUpdate) =>
        /\ result = "Err"
        /\ loops /= <<>>
        /\ \A k \in 1 .. Len(loops) :
              /\ loops[k].path = <<"uut">>
              /\ loops[k].name \in {<<"out">>, <<"loc">>}

\* C11 witness: the check has returned Err on Circle's update, and the entry
\* is uut.out, the signal the first statement reads before anything wrote it.
C11_Witness ==
    /\ result = "Err"
    /\ code = CircleUpdate
    /\ loops = <<[path |-> <<"uut">>, name |-> <<"out">>]>>

(***************************************************************************)
(* Simulation: the simulator kernel (spec 4.4 and 5; its code is not among *)
(* the sources, its callers are the tests of rust-hdl-test).  The DUT is a *)
(* block with a clock, an input in1 and an output out, and the update      *)
(*     self.out.next = self.clock.val();                                   *)
(*     if self.in1.val() { self.out.next = !self.out.val(); }              *)
(* which settles while in1 is low and oscillates while it is high.  Two    *)
(* testbenches are registered, as in test_fifo_works; what a testbench     *)
(* does when it is resumed is its own code: any write to in1, then any     *)
(* suspension, or an error.                                                *)
(***************************************************************************)
\* sim.add_clock(half_period, ..): the half period of the clock, in picoseconds
ClockHalfPeriod == 2
\* sim.run(uut, max_time): the total timeout, in picoseconds
MaxTime == 5
\* the settle-iteration cap of the configuration
SettleCap == 3

\* the two testbenches, in registration order
Testbenches == {1, 2}

DutSignals == {"clock", "in1", "out"}

\* the predicates the testbenches watch
Preds == {"clock", "!clock", "out"}
Pred(p, vals) ==
    CASE p = "clock" -> vals["clock"]
      [] p = "!clock" -> ~vals["clock"]
      [] p = "out" -> vals["out"]

\* the delays the testbenches wait for
WaitPicos == {1, ClockHalfPeriod + 1, MaxTime + 1}

ValsOf(g) == [s \in DOMAIN g |-> g[s].val]

\* the DUT's update: combinational, from val to next
Dut_update(g) ==
    [g EXCEPT !["out"].next = IF g["in1"].val THEN ~g["out"].val ELSE g["clock"].val]

\* the DUT's update_all: update_all of each signal, then the block's update
Dut_update_all(g) ==
    Dut_update([s \in DOMAIN g |-> Signal_update_all(g[s])])

\* the DUT's has_changed: some signal's changed flag is raised
Dut_has_changed(g) == \E s \in DOMAIN g : Signal_has_changed(g[s])

\* some signal's staged value is not yet committed
Staged(g) == \E s \in DOMAIN g : g[s].val /= g[s].next

\* the clock callback of add_clock: |x| x.clock.next = !x.clock.val()
ClockToggle(g) == [g EXCEPT !["clock"].next = ~g["clock"].val]

\* a testbench that was resumed whatever the predicate it watches
IsRunnable_anywatch(b, vals, t) ==
    CASE b.st = "init" -> TRUE
      [] b.st = "watch" -> TRUE
      [] b.st = "wait" -> b.due = t
      [] OTHER -> FALSE

\* settle loop, step 1: the testbench suspended as b is runnable at time t
\* on a DUT with values vals
IsRunnable(b, vals, t) ==
    CASE b.st = "init" -> TRUE
      [] b.st = "watch" -> Pred(b.p, vals)
      [] b.st = "wait" -> b.due = t
      [] OTHER -> FALSE

SetMin(S) == CHOOSE x \in S : \A y \in S : x <= y

\* a scheduler that goes on to settle once one testbench has suspended
Dispatch_one(run, i) ==
    IF i = 0 /\ run /= {}
    THEN [phase |-> "RunningTask", task |-> SetMin(run)]
    ELSE [phase |-> "Settling", task |-> 0]

\* settle loop, step 2: after testbench i (0: none yet) the next runnable
\* testbench in registration order is resumed; after the last, settle
Dispatch(run, i) ==
    LET later == {j \in run : j > i}
    IN  IF later = {}
        THEN [phase |-> "Settling", task |-> 0]
        ELSE [phase |-> "RunningTask", task |-> SetMin(later)]

\* a kernel that drops the failed testbench and goes on with the others
OnTaskError_goon(run, i, e) ==
    [phase |-> Dispatch(run, i).phase, task |-> Dispatch(run, i).task, result |-> "none"]

\* cancellation: on any task failure the run ends with the error
OnTaskError(run, i, e) ==
    [phase |-> "Failed", task |-> 0, result |-> e]

\* a run that fails at the timeout
OnTimeout_failed == [phase |-> "Failed", result |-> "TimeoutExceeded"]

\* the run at the timeout with a testbench that has not called done:
\* run_traced(uut, 100_000, ..).unwrap() of test_pulser, whose testbench
\* waits 10_000_000, requires Ok
OnTimeout == [phase |-> "Done", result |-> "Ok"]

\* settle loop, step 4: the next scheduled event after time t, the earliest
\* of the next clock toggle and the wait timers
NextEvent(bs, t) ==
    SetMin({((t \div ClockHalfPeriod) + 1) * ClockHalfPeriod}
           \cup {bs[i].due : i \in {j \in DOMAIN bs : bs[j].st = "wait" /\ bs[j].due > t}})

NotWoken == [st |-> "none", held |-> TRUE, at |-> 0, due |-> 0]

\* testbench i is resumed at time t on a DUT with values vals
WokenAs(b, vals, t) ==
    [st |-> b.st, held |-> IF b.st = "watch" THEN Pred(b.p, vals) ELSE TRUE,
     at |-> t, due |-> IF b.st = "wait" THEN b.due ELSE 0]

\* the ways a testbench suspends at time t: sim.watch(p, x), sim.wait(n, x), sim.done(x)
Suspensions(t) ==
    {[st |-> "watch", p |-> p, due |-> 0] : p \in Preds}
    \cup {[st |-> "wait", p |-> "-", due |-> t + n] : n \in WaitPicos}
    \cup {[st |-> "done", p |-> "-", due |-> 0]}

\* the errors a testbench ends with: a failed sim_assert!, an Err it returns
TaskErrors == {"SimAssertFailed", "TaskError"}

\* variables the simulation has no use for
SimIdle == <<aborted, lastCall, entry, returned, checkState, circleVars, idVars, shotVars, fifoVars, syncVars, uutVars>>

\* Simulation::new(), add_clock, add_testbench twice, and the DUT
InitSim ==
    /\ sig = [s \in DutSignals |->
                Signal_default(ClockDefault,
                    CASE s = "clock" -> FirstSignalId
                      [] s = "in1" -> FirstSignalId + 1
                      [] s = "out" -> FirstSignalId + 2)]
    /\ aborted = FALSE
    /\ lastCall = [op |-> "new", s |-> "uut"]
    /\ entry = <<>>
    /\ returned = 0
    /\ NoCheck
    /\ NoCircle /\ NoIds /\ NoShot /\ NoFifo /\ NoSync /\ NoUut
    /\ phase = "Idle"
    /\ task = 0
    /\ now = 0
    /\ tb = [i \in Testbenches |-> [st |-> "init", p |-> "-", due |-> 0]]
    /\ runnable = {}
    /\ iter = 0
    /\ simResult = "none"
    /\ resumed = <<>>
    /\ snapshot = [s \in DutSignals |-> ClockDefault]
    /\ woke = [i \in Testbenches |-> NotWoken]
    /\ differed = FALSE

\* the kernel moves on as the scheduler decided; a testbench it resumes
\* gets the DUT at time t
SimGoTo(d, res, t) ==
    /\ phase' = d.phase
    /\ task' = d.task
    /\ resumed' = IF d.phase = "RunningTask" THEN Append(res, d.task) ELSE res
    /\ woke' = IF d.phase = "RunningTask"
               THEN [woke EXCEPT ![d.task] = WokenAs(tb[d.task], ValsOf(sig), t)]
               ELSE woke

\* sim.run(uut, max_time): the first simulated moment; every testbench is in sim.init()
SimRun ==
    /\ phase = "Idle"
    /\ LET run == {i \in Testbenches : IsRunnable(tb[i], ValsOf(sig), now)}
       IN  /\ runnable' = run
           /\ SimGoTo(Dispatch(run, 0), <<>>, now)
    /\ snapshot' = ValsOf(sig)
    /\ iter' = 0
    /\ UNCHANGED <<SimIdle, sig, now, tb, simResult, differed>>

\* the running testbench writes: x.in1.next = v
TaskWrite(v) ==
    /\ phase = "RunningTask"
    /\ sig' = [sig EXCEPT !["in1"].next = v]
    /\ UNCHANGED <<SimIdle, phase, task, now, tb, runnable, iter, simResult,
                   resumed, snapshot, woke, differed>>

\* the running testbench suspends in watch, wait or done
TaskSuspend(b) ==
    /\ phase = "RunningTask"
    /\ tb' = [tb EXCEPT ![task] = b]
    /\ SimGoTo(Dispatch(runnable, task), resumed, now)
    /\ UNCHANGED <<SimIdle, sig, now, runnable, iter, simResult, snapshot, differed>>

\* the running testbench fails a sim_assert! or returns an error
TaskFail(e) ==
    /\ phase = "RunningTask"
    /\ tb' = [tb EXCEPT ![task] = [st |-> "failed", p |-> e, due |-> 0]]
    /\ LET o == OnTaskError(runnable, task, e)
       IN  /\ SimGoTo([phase |-> o.phase, task |-> o.task], resumed, now)
           /\ simResult' = o.result
    /\ UNCHANGED <<SimIdle, sig, now, runnable, iter, snapshot, differed>>

\* settle loop, step 3: one iteration, DUT.update_all(); the loop ends when
\* no changed flag is raised
SettleStep ==
    /\ phase = "Settling"
    /\ iter < SettleCap
    /\ sig' = Dut_update_all(sig)
    /\ iter' = iter + 1
    /\ differed' = Staged(sig)
    /\ phase' = IF Dut_has_changed(sig') THEN "Settling" ELSE "Advancing"
    /\ UNCHANGED <<SimIdle, task, now, tb, runnable, simResult, resumed, snapshot, woke>>

\* settle loop, step 3: the iteration count would exceed the cap
SettleFail ==
    /\ phase = "Settling"
    /\ iter = SettleCap
    /\ phase' = "Failed"
    /\ simResult' = "SettleLimit"
    /\ UNCHANGED <<SimIdle, sig, task, now, tb, runnable, iter, resumed, snapshot,
                   woke, differed>>

AllDone == \A i \in Testbenches : tb[i].st = "done"

\* settle loop, step 5: every testbench reports done
SimDone ==
    /\ phase = "Advancing"
    /\ AllDone
    /\ phase' = "Done"
    /\ simResult' = "Ok"
    /\ UNCHANGED <<SimIdle, sig, task, now, tb, runnable, iter, resumed, snapshot,
                   woke, differed>>

\* settle loop, step 5: the next event lies at or beyond the timeout
SimTimeout ==
    /\ phase = "Advancing"
    /\ ~AllDone
    /\ NextEvent(tb, now) >= MaxTime
    /\ now' = MaxTime
    /\ phase' = OnTimeout.phase
    /\ simResult' = OnTimeout.result
    /\ UNCHANGED <<SimIdle, sig, task, tb, runnable, iter, resumed, snapshot,
                   woke, differed>>

\* settle loop, steps 4, 1 and 2: time advances to the next event, a clock
\* callback that is due toggles the clock, the testbenches whose condition
\* holds are marked runnable and the first of them is resumed
SimAdvance ==
    /\ phase = "Advancing"
    /\ ~AllDone
    /\ LET next == NextEvent(tb, now)
           run == {i \in Testbenches : IsRunnable(tb[i], ValsOf(sig), next)}
       IN  /\ next < MaxTime
           /\ now' = next
           /\ sig' = IF next % ClockHalfPeriod = 0 THEN ClockToggle(sig) ELSE sig
           /\ runnable' = run
           /\ SimGoTo(Dispatch(run, 0), <<>>, next)
    /\ snapshot' = ValsOf(sig)
    /\ iter' = 0
    /\ UNCHANGED <<SimIdle, tb, simResult, differed>>

NextSim ==
    \/ SimRun
    \/ \E v \in BOOLEAN : TaskWrite(v)
    \/ \E b \in Suspensions(now) : TaskSuspend(b)
    \/ \E e \in TaskErrors : TaskFail(e)
    \/ SettleStep
    \/ SettleFail
    \/ SimDone
    \/ SimTimeout
    \/ SimAdvance

SpecSim == InitSim /\ [][NextSim]_vars

(***************************************************************************)
(* Claims about the simulator kernel                                       *)
(***************************************************************************)
Range(s) == {s[k] : k \in 1 .. Len(s)}
Increasing(s) == \A k \in 1 .. Len(s) - 1 : s[k] < s[k + 1]
Failed(i) == tb[i].st = "failed"

\* C12: in a simulated moment the runnable testbenches are resumed once
\* each in registration order and before any settle iteration; while a
\* testbench runs, no settle iteration has run in the moment, no testbench
\* registered before it is still to run, and the values it reads are those
\* the moment began with, whatever the testbenches before it have written.
C12_TestbenchesOnceInOrderBeforeSettle ==
    /\ phase \in {"Settling", "Advancing"} =>
          /\ Increasing(resumed)
          /\ Range(resumed) = runnable
    /\ phase = "RunningTask" =>
          /\ iter = 0
          /\ ValsOf(sig) = snapshot
          /\ Increasing(resumed)
          /\ resumed /= <<>> /\ resumed[Len(resumed)] = task
          /\ Range(resumed) = {j \in runnable : j <= task}

\* C12 witness: in a moment after the first, the second testbench runs after
\* the first has written in1 and suspended, and reads the old value.
C12_Witness ==
    /\ phase = "RunningTask" /\ task = 2
    /\ now > 0
    /\ resumed = <<1, 2>>
    /\ sig["in1"].next /\ ~sig["in1"].val

\* C13: a testbench suspended in watch(p) is resumed only with p true, and
\* in the first moment that begins with p true; one suspended in wait(n) at
\* time t is resumed at t + n, and time never passes t + n without it; one
\* that called done (or failed) is not resumed again.
C13_ResumedWhenConditionHolds ==
    /\ \A i \in Testbenches :
          /\ woke[i].st = "watch" => woke[i].held
          /\ woke[i].st = "wait" => woke[i].at = woke[i].due
          /\ woke[i].st \notin {"done", "failed"}
          /\ (phase = "RunningTask" /\ task = i /\ tb[i].st \in {"done", "failed"}) =>
                 woke[i].at < now
    /\ (phase = "Settling" /\ iter = 0) =>
          \A i \in Testbenches \ Range(resumed) :
              /\ tb[i].st = "watch" => ~Pred(tb[i].p, snapshot)
              /\ tb[i].st = "wait" => tb[i].due > now

\* C13 witness: one testbench was resumed from a watch after time 0, the
\* other was resumed from a wait at its due time and has since called done.
C13_Witness ==
    \E i, j \in Testbenches :
        /\ woke[i].st = "watch" /\ woke[i].at > 0
        /\ woke[j].st = "wait" /\ woke[j].at = woke[j].due
        /\ tb[j].st = "done"
        /\ phase = "Settling"

\* C14: the settle loop runs another iteration only after one that
\* committed a signal and ends with the first that committed none; it runs
\* at most SettleCap iterations, and when the last of them still changed a
\* signal the simulation fails with SettleLimit.
C14_SettleStopsAtFixedPointOrCap ==
    /\ iter <= SettleCap
    /\ (phase = "Settling" /\ iter > 0) => differed
    /\ phase = "Advancing" => (iter >= 1 /\ ~differed)
    /\ simResult = "SettleLimit" => (phase = "Failed" /\ iter = SettleCap /\ differed)
    /\ (phase = "Failed" /\ \A i \in Testbenches : ~Failed(i)) => simResult = "SettleLimit"

\* C14 witness: a DUT that oscillates (in1 is high) has failed with SettleLimit.
C14_Witness ==
    /\ phase = "Failed"
    /\ simResult = "SettleLimit"
    /\ sig["in1"].val
    /\ iter = SettleCap

\* C15, in every state: a testbench has failed only if the run has ended in
\* Failed with the error of that testbench.
C15_FailedWithTheError ==
    \A i \in Testbenches :
        Failed(i) => (phase = "Failed" /\ simResult = tb[i].p /\ simResult \in TaskErrors)

\* C15: once a testbench has failed, no settle iteration runs, no testbench
\* is resumed, and the run has returned that testbench's error.
C15_FailureEndsTheRun ==
    /\ []C15_FailedWithTheError
    /\ [][(\E i \in Testbenches : Failed(i)) =>
            /\ sig' = sig /\ iter' = iter
            /\ resumed' = resumed /\ woke' = woke /\ task' = task
            /\ simResult' = simResult]_vars

\* C15 witness: the first testbench failed a sim_assert! in a moment in which
\* the second was runnable too; the second was not resumed.
C15_Witness ==
    /\ phase = "Failed"
    /\ simResult = "SimAssertFailed"
    /\ Failed(1)
    /\ 2 \in runnable /\ 2 \notin Range(resumed)
    /\ now > 0

\* the run has ended at the timeout: no testbench failed, the settle
\* converged, and some testbench has not called done
TimedOut ==
    /\ simResult /= "none"
    /\ simResult /= "SettleLimit"
    /\ \A i \in Testbenches : ~Failed(i)
    /\ ~AllDone

Threads == {"t1", "t2", "t3"}

\* the signals constructed in one behaviour, over all threads
MaxSignals == 3

Ctors == {"default", "new_with_default"}

\* a fetch_add that leaves the counter as it was
fetch_add_load(c) == [old |-> c, new |-> c]

\* AtomicUsize::fetch_add(1, Ordering::SeqCst): one atomic step, returns the previous value
fetch_add(c) == [old |-> c, new |-> c + 1]

InitIds ==
    /\ idCounter = FirstSignalId
    /\ thread = [t \in Threads |-> [pc |-> "idle", id |-> 0, ctor |-> "none"]]
    /\ made = <<>>
    /\ sig = <<>>
    /\ aborted = FALSE
    /\ lastCall = [op |-> "init", s |-> "none"]
    /\ entry = <<>>
    /\ returned = 0
    /\ NoCheck
    /\ NoCircle /\ NoSim /\ NoShot /\ NoFifo /\ NoSync /\ NoUut

IdIdle == <<signalState, checkState, circleVars, simVars, shotVars, fifoVars, syncVars, uutVars>>

Started == Len(made) + Cardinality({t \in Threads : thread[t].pc = "got"})

\* get_signal_id(), called from the struct expression of constructor c on thread t
GetSignalId(t, c) ==
    /\ thread[t].pc = "idle"
    /\ Started < MaxSignals
    /\ LET f == fetch_add(idCounter)
       IN  /\ idCounter' = f.new
           /\ thread' = [thread EXCEPT ![t] = [pc |-> "got", id |-> f.old, ctor |-> c]]
    /\ UNCHANGED <<IdIdle, made>>

\* the rest of the struct expression: the constructor returns the signal
Construct(t, init) ==
    /\ thread[t].pc = "got"
    /\ made' = Append(made,
                      [by |-> t, ctor |-> thread[t].ctor,
                       signal |-> IF thread[t].ctor = "default"
                                  THEN Signal_default(BitsDefault, thread[t].id)
                                  ELSE Signal_new_with_default(BitsDefault, init, thread[t].id)])
    /\ thread' = [thread EXCEPT ![t] = [pc |-> "idle", id |-> 0, ctor |-> "none"]]
    /\ UNCHANGED <<IdIdle, idCounter>>

NextIds ==
    \/ \E t \in Threads, c \in Ctors : GetSignalId(t, c)
    \/ \E t \in Threads, init \in BitsValues : Construct(t, init)

SpecIds == InitIds /\ [][NextIds]_vars

\* C17: any two signals constructed through Signal::default or
\* Signal::new_with_default, on whatever threads and however the constructors
\* interleave, carry different ids; so do the ids constructors hold while
\* they are still building their signal.
C17_SignalIdsUnique ==
    /\ \A i, j \in DOMAIN made : i # j => made[i].signal.id # made[j].signal.id
    /\ \A t \in DOMAIN thread : thread[t].pc = "got" =>
          /\ \A i \in DOMAIN made : made[i].signal.id # thread[t].id
          /\ \A u \in DOMAIN thread : (u # t /\ thread[u].pc = "got") => thread[u].id # thread[t].id

\* three signals from three threads through both constructors, the one that
\* took its id first returning last
C17_Witness ==
    /\ Len(made) >= 3
    /\ {made[i].by : i \in DOMAIN made} = Threads
    /\ {made[i].ctor : i \in DOMAIN made} = Ctors
    /\ made[1].signal.id > made[Len(made)].signal.id

(***************************************************************************)
(* Shot: the one-shot timer, one step per rising clock edge.  Cycle k is   *)
(* the k-th rising edge and the time up to the next one: the flip-flops    *)
(* take at the edge the d inputs that update settled from their outputs    *)
(* and from the trigger level the edge finds, and active and fired of      *)
(* cycle k are what update settles from the outputs the edge produced.     *)
(* "Triggered on cycle k" is: the k-th edge finds trigger high.            *)
(***************************************************************************)

\* Shot<N>: the width of counter and duration
ShotBits == 8

\* the rising edges of one behaviour
MaxCycles == 10

\* the largest duration, in clocks, a Shot is built with
MaxDuration == 5

\* Shot::new: the flip-flops and the outputs start low, duration holds the clocks
Shot_new(clocks) == [duration |-> clocks, state_q |-> FALSE, counter_q |-> 0]

\* dff_setup!(self, clock, counter, state): every d keeps its q unless update says otherwise
dff_setup(s) == [state_d |-> s.state_q, counter_d |-> s.counter_q]

\* an update that fires one count early
Shot_update_early(s, trigger) ==
    LET d0 == dff_setup(s)
        expired == s.state_q /\ ((s.counter_q + 1) % (2 ^ ShotBits) = s.duration)
    IN  [counter_d |-> IF trigger THEN 0
                       ELSE IF s.state_q THEN (s.counter_q + 1) % (2 ^ ShotBits)
                       ELSE d0.counter_d,
         state_d   |-> IF trigger THEN TRUE ELSE IF expired THEN FALSE ELSE d0.state_d,
         fired     |-> expired,
         active    |-> s.state_q]

\* Shot::update: the next values it leaves, the later assignment winning
Shot_update(s, trigger) ==
    LET d0 == dff_setup(s)
        counter1 == IF s.state_q THEN (s.counter_q + 1) % (2 ^ ShotBits) ELSE d0.counter_d
        fired1 == FALSE
        expired == s.state_q /\ (s.counter_q = s.duration)
        state2 == IF expired THEN FALSE ELSE d0.state_d
        fired2 == IF expired THEN TRUE ELSE fired1
        active == s.state_q
        state3 == IF trigger THEN TRUE ELSE state2
        counter3 == IF trigger THEN 0 ELSE counter1
    IN  [counter_d |-> counter3, state_d |-> state3, fired |-> fired2, active |-> active]

\* DFF at a rising clock edge: q takes d
DFF_edge(s, u) == [s EXCEPT !.state_q = u.state_d, !.counter_q = u.counter_d]

InitShot ==
    /\ cycle = 0
    /\ \E clocks \in 1 .. MaxDuration : shot = Shot_new(clocks)
    /\ trigs = {}
    /\ outs = <<>>
    /\ sig = <<>>
    /\ aborted = FALSE
    /\ lastCall = [op |-> "init", s |-> "none"]
    /\ entry = <<>>
    /\ returned = 0
    /\ NoCheck
    /\ NoCircle /\ NoSim /\ NoIds /\ NoFifo /\ NoSync /\ NoUut

\* one rising edge of clock, finding trigger at level trigger
ClockEdge(trigger) ==
    /\ cycle < MaxCycles
    /\ cycle' = cycle + 1
    /\ trigs' = IF trigger THEN trigs \cup {cycle + 1} ELSE trigs
    /\ LET q == DFF_edge(shot, Shot_update(shot, trigger))
           o == Shot_update(q, FALSE)
       IN  /\ shot' = q
           /\ outs' = Append(outs, [active |-> o.active, fired |-> o.fired])
    /\ UNCHANGED <<signalState, checkState, circleVars, simVars, idVars, fifoVars, syncVars, uutVars>>

NextShot == \E trigger \in BOOLEAN : ClockEdge(trigger)

SpecShot == InitShot /\ [][NextShot]_vars

\* C18: a Shot<8> of duration 5 whose trigger is high at the third rising
\* edge and at no other has active high on cycles 3..7, fired high on cycle 8
\* and on no other cycle, and active low on cycle 9.
C18_ShotTiming ==
    (shot.duration = 5 /\ trigs = {3}) =>
        \A k \in DOMAIN outs :
            /\ (k \in 3 .. 7 => outs[k].active)
            /\ (outs[k].fired <=> k = 8)
            /\ (k = 9 => ~outs[k].active)

C18_Witness ==
    /\ shot.duration = 5 /\ trigs = {3}
    /\ cycle >= 10
    /\ \A k \in 3 .. 7 : outs[k].active
    /\ outs[8].fired
    /\ ~outs[9].active

(***************************************************************************)
(* SyncFIFO<Bits<16>, Mhz1, 4, 5, 4> under the two testbenches of          *)
(* test_fifo_works, one step per rising clock edge.  Between two edges the *)
(* writer may raise write with the next sample if it sees full low, the    *)
(* reader may take data_out and raise read if it sees empty low, or either *)
(* may sit the cycle out; the edge then acts on write, data_in and read.   *)
(* The FIFO is a RAM of 2^N words between a write and a read pointer of    *)
(* N+1 bits.                                                               *)
(***************************************************************************)

\* SyncFIFO<_, _, N, NP1, _>: address bits and pointer bits
FifoN == 4
FifoNP1 == 5

\* Bits<16>
FifoWordBits == 16

\* the words the writer has to write
MaxWrites == 34

\* rdata: the i-th word written
Sample(i) == (i - 1) % (2 ^ FifoWordBits)

Fifo_new ==
    [mem |-> [a \in 0 .. (2 ^ FifoN) - 1 |-> 0],
     write_ptr |-> 0, read_ptr |-> 0, overflow |-> FALSE, underflow |-> FALSE]

Fifo_fill(f) == (f.write_ptr + (2 ^ FifoNP1) - f.read_ptr) % (2 ^ FifoNP1)
Fifo_full(f) == Fifo_fill(f) = 2 ^ FifoN
Fifo_empty(f) == Fifo_fill(f) = 0
Fifo_data_out(f) == f.mem[f.read_ptr % (2 ^ FifoN)]

\* the FIFO at a rising clock edge
Fifo_edge(f, write, data_in, read) ==
    LET do_write == write /\ ~Fifo_full(f)
        do_read == read /\ ~Fifo_empty(f)
    IN  [mem |-> IF do_write
                 THEN [f.mem EXCEPT ![f.write_ptr % (2 ^ FifoN)] = data_in]
                 ELSE f.mem,
         write_ptr |-> IF do_write THEN (f.write_ptr + 1) % (2 ^ FifoNP1) ELSE f.write_ptr,
         read_ptr |-> IF do_read THEN (f.read_ptr + 1) % (2 ^ FifoNP1) ELSE f.read_ptr,
         overflow |-> f.overflow \/ (write /\ Fifo_full(f)),
         underflow |-> f.underflow \/ (read /\ Fifo_empty(f))]

\* a writer that never looks at full
WriterWatch_always(f) == TRUE

\* sim.watch(|x| !x.fifo.full.val().raw(), x)
WriterWatch(f) == ~Fifo_full(f)

\* sim.watch(|x| !x.fifo.empty.val().raw(), x)
ReaderWatch(f) == ~Fifo_empty(f)

InitFifo ==
    /\ fifo = Fifo_new
    /\ written = 0
    /\ got = <<>>
    /\ sig = <<>>
    /\ aborted = FALSE
    /\ lastCall = [op |-> "init", s |-> "none"]
    /\ entry = <<>>
    /\ returned = 0
    /\ NoCheck
    /\ NoCircle /\ NoSim /\ NoIds /\ NoShot /\ NoSync /\ NoUut

\* one clock cycle: what the testbenches drive, then the rising edge
FifoClock(write, read) ==
    /\ write => (written < MaxWrites /\ WriterWatch(fifo))
    /\ read => ReaderWatch(fifo)
    /\ fifo' = Fifo_edge(fifo, write, Sample(written + 1), read)
    /\ written' = IF write THEN written + 1 ELSE written
    /\ got' = IF read THEN Append(got, Fifo_data_out(fifo)) ELSE got
    /\ UNCHANGED <<signalState, checkState, circleVars, simVars, idVars, shotVars, syncVars, uutVars>>

NextFifo == \E write, read \in BOOLEAN : FifoClock(write, read)

SpecFifo == InitFifo /\ [][NextFifo]_vars

SyncBits == 8

\* the values the sender testbench has to send
MaxSends == 8

\* the i-th value sent: i as u32, from 0
Value(i) == (i - 1) % (2 ^ SyncBits)

Sender_new == [state |-> "Idle", hold |-> 0, flag |-> FALSE, ack1 |-> FALSE, ack2 |-> FALSE]
Receiver_new ==
    [state |-> "WaitFlag", hold |-> 0, ack |-> FALSE, update |-> FALSE,
     flag1 |-> FALSE, flag2 |-> FALSE]

Sender_busy(s) == s.state # "Idle"

\* SyncVecTest::update: what each side's inputs are wired to
Wires(s, r) == [ack_in |-> r.ack, flag_in |-> s.flag, sig_cross |-> s.hold]

\* the sender at a rising edge of its clock
Sender_edge(s, send, sig_in, ack_in) ==
    LET x == [s EXCEPT !.ack1 = ack_in, !.ack2 = s.ack1]
    IN  CASE s.state = "Idle" /\ send ->
                [x EXCEPT !.hold = sig_in, !.flag = TRUE, !.state = "Sending"]
          [] s.state = "Sending" /\ s.ack2 ->
                [x EXCEPT !.flag = FALSE, !.state = "Waiting"]
          [] s.state = "Waiting" /\ ~s.ack2 ->
                [x EXCEPT !.state = "Idle"]
          [] OTHER -> x

\* the receiver at a rising edge of its clock
Receiver_edge(r, flag_in, sig_cross) ==
    LET x == [r EXCEPT !.flag1 = flag_in, !.flag2 = r.flag1, !.update = FALSE]
    IN  CASE r.state = "WaitFlag" /\ r.flag2 ->
                [x EXCEPT !.hold = sig_cross, !.ack = TRUE, !.update = TRUE,
                          !.state = "WaitClear"]
          [] r.state = "WaitClear" /\ ~r.flag2 ->
                [x EXCEPT !.ack = FALSE, !.state = "WaitFlag"]
          [] OTHER -> x

\* a sender testbench that does not wait for busy
SenderWatch_always(s) == TRUE

\* sim.watch(|x| !x.sender.busy.val().any(), x)
SenderWatch(s) == ~Sender_busy(s)

\* sim.watch(|x| x.recv.update.val().any(), x)
ReceiverWatch(r) == r.update

InitSync ==
    /\ sender = Sender_new
    /\ recv = Receiver_new
    /\ sent = [n |-> 0, send |-> TRUE]
    /\ presented = <<>>
    /\ sig = <<>>
    /\ aborted = FALSE
    /\ lastCall = [op |-> "init", s |-> "none"]
    /\ entry = <<>>
    /\ returned = 0
    /\ NoCheck
    /\ NoCircle /\ NoSim /\ NoIds /\ NoShot /\ NoFifo /\ NoUut

\* rising edges: se of the sender's clock, re of the receiver's; the
\* testbench of a domain runs on what its edge left
ClockEdges(se, re) ==
    /\ se \/ re
    /\ LET w == Wires(sender, recv)
           s2 == IF se THEN Sender_edge(sender, sent.send, Value(sent.n + 1), w.ack_in)
                 ELSE sender
           r2 == IF re THEN Receiver_edge(recv, w.flag_in, w.sig_cross) ELSE recv
           n2 == IF se /\ sent.send THEN sent.n + 1 ELSE sent.n
       IN  /\ sender' = s2
           /\ recv' = r2
           /\ sent' = IF se THEN [n |-> n2, send |-> n2 < MaxSends /\ SenderWatch(s2)]
                      ELSE sent
           /\ presented' = IF re /\ ReceiverWatch(r2) THEN Append(presented, r2.hold)
                           ELSE presented
    /\ UNCHANGED <<signalState, checkState, circleVars, simVars, idVars, shotVars, fifoVars, uutVars>>

SenderEdge == ClockEdges(TRUE, FALSE)
ReceiverEdge == ClockEdges(FALSE, TRUE)
BothEdges == ClockEdges(TRUE, TRUE)

NextSync == SenderEdge \/ ReceiverEdge \/ BothEdges

\* both clocks keep ticking
SpecSync ==
    /\ InitSync /\ [][NextSync]_vars
    /\ WF_vars(SenderEdge \/ BothEdges)
    /\ WF_vars(ReceiverEdge \/ BothEdges)

SyncInOrderOnce ==
    /\ Len(presented) <= sent.n
    /\ \A i \in DOMAIN presented : presented[i] = Value(i)

olderVars == <<signalState, checkState, circleVars, simVars, idVars, shotVars,
               fifoVars, syncVars>>

NoOlder ==
    /\ sig = <<>>
    /\ aborted = FALSE
    /\ lastCall = [op |-> "init", s |-> "none"]
    /\ entry = <<>>
    /\ returned = 0
    /\ NoCheck
    /\ NoCircle /\ NoSim /\ NoIds /\ NoShot /\ NoFifo /\ NoSync

(***************************************************************************)
(* RAM: the simulated block (update over the BTreeMap _sim) next to the    *)
(* Verilog that hdl() emits (reg mem[], two always blocks), both driven by *)
(* the same edges and inputs.  A cell of mem that no initial statement     *)
(* sets holds whatever the memory powers up with.                          *)
(***************************************************************************)

\* the largest address of the RAM: Bits<N>
MaxRamAddr == 1

RamAddrs == 0 .. MaxRamAddr

\* BTreeMap<Bits<N>, D>: the maps over some of the addresses
RamMaps == UNION {[d -> BitsValues] : d \in SUBSET RamAddrs}

\* RAM::new(values) beside the memory the emitted "initial begin mem[k] = v; end"
\* leaves: the listed cells set, the others as they power up
RAM_new(values, powerup) ==
    [_sim |-> values, read_data |-> BitsDefault,
     mem |-> [a \in RamAddrs |-> IF a \in DOMAIN values THEN values[a] ELSE powerup[a]],
     hdl_read_data |-> BitsDefault]

\* RAM::update with the clocks' pos_edge() as given: the read, then the insert
RAM_update(u, read_edge, write_edge, read_address, write_address, write_data, write_enable) ==
    LET rd == IF read_edge
              THEN (IF read_address \in DOMAIN u._sim THEN u._sim[read_address] ELSE BitsDefault)
              ELSE u.read_data
        sm == IF write_edge /\ write_enable
              THEN [a \in DOMAIN u._sim \cup {write_address} |->
                        IF a = write_address THEN write_data ELSE u._sim[a]]
              ELSE u._sim
    IN  [u EXCEPT !.read_data = rd, !._sim = sm]

\* the emitted always blocks: non-blocking assignments, both reading mem as it was
RAM_hdl(u, read_edge, write_edge, read_address, write_address, write_data, write_enable) ==
    [u EXCEPT !.hdl_read_data = IF read_edge THEN u.mem[read_address] ELSE @,
              !.mem = IF write_edge /\ write_enable
                      THEN [u.mem EXCEPT ![write_address] = write_data]
                      ELSE @]

InitRam ==
    /\ \E values \in RamMaps, powerup \in [RamAddrs -> BitsValues] :
          uut = RAM_new(values, powerup)
    /\ trace = [read |-> FALSE]
    /\ NoOlder

\* positive edges of read_clock and write_clock, one or both
RamClock(re, we, ra, wa, wd, wen) ==
    /\ re \/ we
    /\ uut' = RAM_hdl(RAM_update(uut, re, we, ra, wa, wd, wen), re, we, ra, wa, wd, wen)
    /\ trace' = [read |-> trace.read \/ re]
    /\ UNCHANGED olderVars

NextRam ==
    \E re, we, wen \in BOOLEAN, ra, wa \in RamAddrs, wd \in BitsValues :
        RamClock(re, we, ra, wa, wd, wen)

SpecRam == InitRam /\ [][NextRam]_vars

\* C21: after every positive read-clock edge the simulated RAM and the
\* emitted HDL show the same read_data, whatever the edges, addresses, data
\* and write_enable were, a read of a cell never written or initialised
\* included.
C21_UpdateMatchesHdl == trace.read => uut.read_data = uut.hdl_read_data

(***************************************************************************)
(* FIFOReducerN between a source FIFO (empty, data_in, read) and a sink    *)
(* FIFO (full, data_out, write), one step per rising clock edge.  The      *)
(* source keeps its word until it is read and then shows the next one or   *)
(* goes empty; the sink raises and drops full as it likes.  Reducer::update*)
(* only wires the bus signals to the ones of the same name.                *)
(***************************************************************************)

\* the source words one behaviour reads
MaxWords == 3

\* <<DW, DN>> with DW % DN = 0
ReducerShapes == {<<4, 1>>, <<4, 2>>, <<4, 4>>}

WordOrder == {"LeastSignificantFirst", "MostSignificantFirst"}

\* Bits<W>::get_bits::<DN>(index)
get_bits(v, index, dn) == (v \div (2 ^ index)) % (2 ^ dn)

\* FIFOReducerN::new(order): the constants, the flip-flops at their defaults
FIFOReducerN_new(dw, dn, order) ==
    LET msw_first == order = "MostSignificantFirst"
    IN  [DW |-> dw, DN |-> dn, msw_first |-> msw_first,
         ratio |-> (dw \div dn) - 1, offset |-> dn,
         select |-> IF ~msw_first THEN 0 ELSE dw - dn,
         load_count |-> 0, data_store |-> 0]

\* an update that writes whether or not the sink is full
FIFOReducerN_update_ignorefull(u, empty, data_in, full) ==
    LET data_available == (u.load_count # 0) \/ ~empty
        will_write == data_available
        will_consume == (u.load_count = 0) /\ ~empty /\ will_write
    IN  [write |-> will_write, read |-> will_consume,
         data_out |-> get_bits(IF u.load_count # 0 THEN u.data_store ELSE data_in, u.select, u.DN),
         data_store_d |-> IF will_consume THEN data_in \div (2 ^ u.offset)
                          ELSE IF will_write THEN u.data_store \div (2 ^ u.offset)
                          ELSE u.data_store,
         load_count_d |-> IF will_consume THEN u.ratio
                          ELSE IF will_write /\ u.load_count # 0 THEN u.load_count - 1
                          ELSE u.load_count]

\* an update that stores the word it consumes without shifting out the slice it wrote
FIFOReducerN_update_noshift(u, empty, data_in, full) ==
    LET data_available == (u.load_count # 0) \/ ~empty
        will_write == data_available /\ ~full
        will_consume == (u.load_count = 0) /\ ~empty /\ will_write
    IN  [write |-> will_write, read |-> will_consume,
         data_out |-> get_bits(IF u.load_count # 0 THEN u.data_store ELSE data_in, u.select, u.DN),
         data_store_d |-> IF will_consume THEN data_in
                          ELSE IF will_write THEN u.data_store \div (2 ^ u.offset)
                          ELSE u.data_store,
         load_count_d |-> IF will_consume THEN u.ratio
                          ELSE IF will_write /\ u.load_count # 0 THEN u.load_count - 1
                          ELSE u.load_count]

\* FIFOReducerN::update, settled: the outputs and the flip-flops' d inputs
FIFOReducerN_update(u, empty, data_in, full) ==
    LET shr(v) == v \div (2 ^ u.offset)
        shl(v) == (v * (2 ^ u.offset)) % (2 ^ u.DW)
        d0 == [load_count |-> u.load_count, data_store |-> u.data_store]
        data_available == (u.load_count # 0) \/ ~empty
        will_write == data_available /\ ~full
        will_consume == (u.load_count = 0) /\ ~empty /\ will_write
        data_out == IF u.load_count # 0
                    THEN get_bits(u.data_store, u.select, u.DN)
                    ELSE get_bits(data_in, u.select, u.DN)
        store1 == IF will_write
                  THEN (IF ~u.msw_first THEN shr(u.data_store) ELSE shl(u.data_store))
                  ELSE d0.data_store
        count1 == IF will_write /\ u.load_count # 0
                  THEN (u.load_count + 255) % 256
                  ELSE d0.load_count
        store2 == IF will_consume
                  THEN (IF ~u.msw_first THEN shr(data_in) ELSE shl(data_in))
                  ELSE store1
        count2 == IF will_consume THEN u.ratio ELSE count1
    IN  [write |-> will_write, read |-> will_consume, data_out |-> data_out,
         data_store_d |-> store2, load_count_d |-> count2]

\* what the source shows next: the same word until it is read
SourceNext(empty, data_in, read, more) ==
    IF ~empty /\ ~read
    THEN {[empty |-> FALSE, data_in |-> data_in]}
    ELSE {[empty |-> TRUE, data_in |-> 0]}
         \cup (IF more THEN {[empty |-> FALSE, data_in |-> w] : w \in 0 .. (2 ^ 4) - 1} ELSE {})

InitReducer ==
    /\ \E s \in ReducerShapes, order \in WordOrder :
          uut = [dev |-> FIFOReducerN_new(s[1], s[2], order),
                 empty |-> TRUE, data_in |-> 0, full |-> FALSE]
    /\ trace = [words |-> 0, word |-> 0, sunk |-> <<>>, whole |-> TRUE]
    /\ NoOlder

\* one rising clock edge
ReducerClock ==
    LET o == FIFOReducerN_update(uut.dev, uut.empty, uut.data_in, uut.full)
        taken == IF o.read THEN trace.words + 1 ELSE trace.words
    IN  /\ \E src \in SourceNext(uut.empty, uut.data_in, o.read, taken < MaxWords),
              full \in BOOLEAN :
              uut' = [dev |-> [uut.dev EXCEPT !.load_count = o.load_count_d,
                                              !.data_store = o.data_store_d],
                      empty |-> src.empty, data_in |-> src.data_in, full |-> full]
        /\ trace' = IF o.read
                    THEN [words |-> taken, word |-> uut.data_in,
                          sunk |-> IF o.write THEN <<o.data_out>> ELSE <<>>,
                          whole |-> trace.whole /\ (trace.words = 0 \/
                                        Len(trace.sunk) = uut.dev.DW \div uut.dev.DN)]
                    ELSE [trace EXCEPT !.sunk = IF o.write THEN Append(@, o.data_out) ELSE @]
        /\ UNCHANGED olderVars

SpecReducer == InitReducer /\ [][ReducerClock]_vars

\* C22: with LeastSignificantFirst, the words written to the sink for a
\* source word are its slices at bit offsets 0, DN, 2*DN, ... in that order,
\* DW/DN of them before the next source word is read, and a source word is
\* read in the cycle its first slice is written, whatever empty and full do.
C22_SlicesInOrder ==
    ~uut.dev.msw_first =>
        /\ trace.whole
        /\ \A j \in DOMAIN trace.sunk :
              trace.sunk[j] = get_bits(trace.word, (j - 1) * uut.dev.DN, uut.dev.DN)
        /\ trace.words > 0 =>
              /\ Len(trace.sunk) >= 1
              /\ uut.dev.load_count = (uut.dev.DW \div uut.dev.DN) - Len(trace.sunk)

\* a second 4-bit word has gone out as four 1-bit slices, not all alike
C22_Witness ==
    /\ ~uut.dev.msw_first /\ uut.dev.DN = 1
    /\ trace.words = 2
    /\ Len(trace.sunk) = 4
    /\ trace.sunk[1] # trace.sunk[2]
    /\ trace.sunk[3] # trace.sunk[4]

\* C29: in every settled state write is high only when full is low and data
\* is available, read is high only when load_count = 0, the source is not
\* empty and write is high; load_count never exceeds DW/DN - 1.
C29_ReducerHandshake ==
    LET o == FIFOReducerN_update(uut.dev, uut.empty, uut.data_in, uut.full)
    IN  /\ o.write => (~uut.full /\ (uut.dev.load_count # 0 \/ ~uut.empty))
        /\ o.read => (uut.dev.load_count = 0 /\ ~uut.empty /\ o.write)
        /\ uut.dev.load_count <= (uut.dev.DW \div uut.dev.DN) - 1

\* the sink is full while the reducer holds slices: it neither writes nor reads
C29_Witness ==
    LET o == FIFOReducerN_update(uut.dev, uut.empty, uut.data_in, uut.full)
    IN  /\ uut.full /\ ~uut.empty
        /\ uut.dev.load_count = (uut.dev.DW \div uut.dev.DN) - 1
        /\ uut.dev.load_count > 0
        /\ ~o.write /\ ~o.read

(***************************************************************************)
(* SDRAMSimulator: the master state machine of the chip, one step per      *)
(* rising clock edge.  uut holds the flip-flops' outputs, the command and  *)
(* address the bus shows (sampled by the next edge) and the four banks;    *)
(* after each edge the controller puts any command and address on the bus. *)
(* A bank is busy for t_rp clocks after a precharge and t_rfc clocks after *)
(* an auto-refresh, and raises error for good when it is given a command   *)
(* while busy.                                                             *)
(***************************************************************************)

\* timings.t_boot(), timings.t_rp(), timings.t_rfc(), in clocks
TBoot == 2
TRp == 2
TRfc == 2

\* load_mode_command_timing_clocks
LoadModeClocks == 2

\* the auto-refreshes counted during one initialisation
MaxAutoRefresh == 3

\* what the controller may put on the bus: [cmd, address, bank].  The mode
\* words are burst 3 / CAS 3, CAS 1, op_mode 1, burst 7, bit 10 and bit 11.
BusInputs ==
    [cmd : {"NOP", "AutoRefresh"}, address : {0}, bank : {0}]
    \cup [cmd : {"Precharge"}, address : {0}, bank : {0, 3}]
    \cup [cmd : {"Precharge"}, address : {1024, 4095}, bank : {0}]
    \cup [cmd : {"LoadModeRegister"}, address : {51, 19, 179, 55, 1024, 2048}, bank : {0}]
    \cup [cmd : {"BurstTerminate", "Read", "Write"}, address : {0}, bank : {0}]
    \cup [cmd : {"Active"}, address : {0}, bank : {0, 3}]

Banks == 0 .. 3

get_bit(v, i) == (v \div (2 ^ i)) % 2 = 1

\* a chip whose mode register takes longer to load than the controller waits
SDRAMSimulator_new_slow ==
    [state |-> "Boot", counter |-> 0, auto_refresh_init_counter |-> 0,
     burst_len |-> 0, cas_latency |-> 0, op_mode |-> 0,
     boot_delay |-> TBoot, t_rp |-> TRp - 1, load_mode_timing |-> LoadModeClocks + 5]

\* SDRAMSimulator::new(timings)
SDRAMSimulator_new ==
    [state |-> "Boot", counter |-> 0, auto_refresh_init_counter |-> 0,
     burst_len |-> 0, cas_latency |-> 0, op_mode |-> 0,
     boot_delay |-> TBoot, t_rp |-> TRp - 1, load_mode_timing |-> LoadModeClocks - 1]

\* MemoryBank: select as the chip drives it, busy and error
Bank_select(i, cmd, address, bank) ==
    \/ bank = i
    \/ cmd = "AutoRefresh"
    \/ (cmd = "Precharge" /\ get_bit(address, 10))

Bank_edge(b, selected, cmd) ==
    IF ~selected \/ cmd = "NOP"
    THEN [b EXCEPT !.busy = IF @ > 0 THEN @ - 1 ELSE 0]
    ELSE IF b.busy > 0
    THEN [b EXCEPT !.busy = @ - 1, !.error = TRUE]
    ELSE CASE cmd = "AutoRefresh" -> [b EXCEPT !.busy = TRfc]
           [] cmd = "Precharge" -> [b EXCEPT !.busy = TRp]
           [] OTHER -> b

\* an update whose bank-error loop runs before the state machine
SDRAMSimulator_update_errorfirst(u, cmd, address, banks) ==
    [state |-> CASE u.state = "Boot" ->
                      IF u.counter = u.boot_delay THEN "WaitPrecharge"
                      ELSE IF \E i \in Banks : banks[i].error THEN "Error" ELSE u.state
                 [] u.state = "Ready" -> "Ready"
                 [] OTHER -> "Error",
     counter |-> u.counter + 1,
     auto_refresh_init_counter |-> u.auto_refresh_init_counter,
     burst_len |-> u.burst_len, cas_latency |-> u.cas_latency, op_mode |-> u.op_mode]

\* an update that lets the expiring wait counter win over a command in Precharge
SDRAMSimulator_update_lenient(u, cmd, address, banks) ==
    [state |-> CASE u.state = "Boot" ->
                      IF u.counter = u.boot_delay THEN "WaitPrecharge" ELSE "Boot"
                 [] u.state = "WaitPrecharge" ->
                      IF cmd = "NOP" THEN "WaitPrecharge"
                      ELSE IF cmd = "Precharge" /\ get_bit(address, 10) THEN "Precharge"
                      ELSE "Error"
                 [] u.state = "Precharge" ->
                      IF u.counter = u.t_rp THEN "WaitAutorefresh"
                      ELSE IF cmd # "NOP" THEN "Error" ELSE "Precharge"
                 [] OTHER -> "Error",
     counter |-> IF u.state = "WaitPrecharge" THEN 0 ELSE u.counter + 1,
     auto_refresh_init_counter |-> u.auto_refresh_init_counter,
     burst_len |-> u.burst_len, cas_latency |-> u.cas_latency, op_mode |-> u.op_mode]

\* SDRAMSimulator::update: the d inputs it leaves, the later assignment winning
SDRAMSimulator_update(u, cmd, address, banks) ==
    LET banks_busy == \E i \in Banks : banks[i].busy > 0
        d0 == [state |-> u.state, counter |-> u.counter,
               auto_refresh_init_counter |-> u.auto_refresh_init_counter,
               burst_len |-> u.burst_len, cas_latency |-> u.cas_latency,
               op_mode |-> u.op_mode]
        \* the loop over the banks: burst_len and cas_latency codes
        d1 == IF u.burst_len > 3 \/ u.cas_latency \notin {0, 2, 3}
              THEN [d0 EXCEPT !.state = "Error"] ELSE d0
        \* Bits<32>: the counters stay far below 2^32 here
        inc == u.counter + 1
        d2 == CASE u.state = "Boot" ->
                     [d1 EXCEPT !.counter = inc,
                                !.state = IF u.counter = u.boot_delay
                                          THEN "WaitPrecharge" ELSE @]
                [] u.state = "WaitPrecharge" ->
                     (CASE cmd = "NOP" -> d1
                        [] cmd = "Precharge" ->
                             IF ~get_bit(address, 10)
                             THEN [d1 EXCEPT !.state = "Error"]
                             ELSE [d1 EXCEPT !.counter = 0, !.state = "Precharge"]
                        [] OTHER -> [d1 EXCEPT !.state = "Error"])
                [] u.state = "Precharge" ->
                     [d1 EXCEPT !.counter = inc,
                                !.state = IF cmd # "NOP" THEN "Error"
                                          ELSE IF u.counter = u.t_rp THEN "WaitAutorefresh"
                                          ELSE @]
                [] u.state = "WaitAutorefresh" ->
                     (CASE cmd = "NOP" -> d1
                        [] cmd = "AutoRefresh" ->
                             IF banks_busy
                             THEN [d1 EXCEPT !.state = "Error"]
                             ELSE [d1 EXCEPT !.auto_refresh_init_counter =
                                                 u.auto_refresh_init_counter + 1]
                        [] cmd = "LoadModeRegister" ->
                             IF u.auto_refresh_init_counter < 2
                             THEN [d1 EXCEPT !.state = "Error"]
                             ELSE [d1 EXCEPT
                                     !.counter = 0,
                                     !.burst_len = address % 8,
                                     !.cas_latency = (address \div 16) % 8,
                                     !.op_mode = (address \div 128) % 4,
                                     !.state = IF (address \div 1024) % 4 # 0
                                               THEN "Error" ELSE "LoadModeRegister"]
                        [] OTHER -> [d1 EXCEPT !.state = "Error"])
                [] u.state = "LoadModeRegister" ->
                     [d1 EXCEPT !.counter = inc,
                                !.state = IF \/ cmd # "NOP"
                                             \/ u.burst_len > 3
                                             \/ u.cas_latency > 3 \/ u.cas_latency = 0
                                             \/ u.op_mode # 0
                                          THEN "Error"
                                          ELSE IF u.counter = u.load_mode_timing THEN "Ready"
                                          ELSE @]
                [] OTHER -> d1
    IN  \* any banks that are in error mean the chip is in error
        IF \E i \in Banks : banks[i].error THEN [d2 EXCEPT !.state = "Error"] ELSE d2

\* sdram_boot! and the LoadModeRegister of test_sdram_init_works, from the
\* Precharge on: what the controller puts on the bus, cycle by cycle
BootScript ==
    <<[cmd |-> "Precharge", address |-> 4095]>>
    \o [i \in 1 .. TRp |-> [cmd |-> "NOP", address |-> 4095]]
    \o <<[cmd |-> "AutoRefresh", address |-> 4095]>>
    \o [i \in 1 .. TRfc |-> [cmd |-> "NOP", address |-> 4095]]
    \o <<[cmd |-> "AutoRefresh", address |-> 4095]>>
    \o [i \in 1 .. TRfc |-> [cmd |-> "NOP", address |-> 4095]]
    \o <<[cmd |-> "LoadModeRegister", address |-> 51]>>
    \o [i \in 1 .. 5 |-> [cmd |-> "NOP", address |-> 51]]

\* how far the bus has followed BootScript: pos commands of it are on the bus
\* or behind, on while no other command has been driven
Follow(tr, state, cmd, address) ==
    IF ~tr.on THEN tr
    ELSE IF tr.pos = 0
    THEN (IF cmd = "NOP" THEN tr
          ELSE IF state = "WaitPrecharge" /\ cmd = "Precharge" /\ address = 4095
               THEN [tr EXCEPT !.pos = 1]
          ELSE [tr EXCEPT !.on = FALSE])
    ELSE IF tr.pos = Len(BootScript)
    THEN (IF cmd = "NOP" THEN tr ELSE [tr EXCEPT !.on = FALSE])
    ELSE IF BootScript[tr.pos + 1].cmd = cmd
            /\ (cmd \in {"NOP", "AutoRefresh"} \/ BootScript[tr.pos + 1].address = address)
    THEN [tr EXCEPT !.pos = @ + 1]
    ELSE [tr EXCEPT !.on = FALSE]

InitSdram ==
    /\ uut = [dev |-> SDRAMSimulator_new,
              banks |-> [i \in Banks |-> [busy |-> 0, error |-> FALSE]]]
    /\ trace = [pos |-> 0, on |-> TRUE, prev |-> "Boot"]
    /\ NoOlder

\* one rising clock edge with cmd, address and bank on the bus
SdramClock(cmd, address, bank) ==
    /\ (cmd = "AutoRefresh" /\ uut.dev.state = "WaitAutorefresh")
          => uut.dev.auto_refresh_init_counter < MaxAutoRefresh
    /\ LET d == SDRAMSimulator_update(uut.dev, cmd, address, uut.banks)
           q == [uut.dev EXCEPT !.state = d.state, !.counter = d.counter,
                                !.auto_refresh_init_counter = d.auto_refresh_init_counter,
                                !.burst_len = d.burst_len, !.cas_latency = d.cas_latency,
                                !.op_mode = d.op_mode]
       IN  /\ uut' = [dev |-> q,
                      banks |-> [i \in Banks |->
                                    Bank_edge(uut.banks[i],
                                              Bank_select(i, cmd, address, bank), cmd)]]
           /\ trace' = [Follow(trace, uut.dev.state, cmd, address)
                           EXCEPT !.prev = uut.dev.state]
    /\ UNCHANGED olderVars

NextSdram == \E in \in BusInputs : SdramClock(in.cmd, in.address, in.bank)

SpecSdram == InitSdram /\ [][NextSdram]_vars

\* the position of the LoadModeRegister in BootScript
LoadModePos == 2 * TRfc + TRp + 4

BankError == \E i \in Banks : uut.banks[i].error

\* C23: while the bus carries the initialisation sequence (Precharge of all
\* banks once the boot delay is over, t_rp NOPs, AutoRefresh, t_rfc NOPs,
\* AutoRefresh, t_rfc NOPs, LoadModeRegister with burst code 3 and CAS latency
\* 3, NOPs) the master state is never Error, and five clocks after the
\* LoadModeRegister it is Ready
C23_InitReachesReady ==
    trace.on =>
        /\ uut.dev.state # "Error"
        /\ ~BankError
        /\ trace.pos >= LoadModePos + 5 => uut.dev.state = "Ready"
        /\ trace.pos >= LoadModePos => (uut.dev.burst_len = 3 /\ uut.dev.cas_latency = 3)

C23_Witness ==
    /\ trace.on
    /\ trace.pos = Len(BootScript)
    /\ uut.dev.state = "Ready"
    /\ trace.prev = "Ready"

\* C28: when any bank reports an error the next value of the master state is
\* Error, whatever the state and whatever the command on the bus
C28_BankErrorForcesError ==
    BankError =>
        \A in \in BusInputs :
            SDRAMSimulator_update(uut.dev, in.cmd, in.address, uut.banks).state = "Error"

C28_Witness ==
    /\ BankError
    /\ trace.prev = "Ready"
    /\ uut.dev.state = "Error"

\* C27: in WaitPrecharge every command but NOP and Precharge with A10 set
\* sends the master state to Error; in Precharge and in LoadModeRegister every
\* command but NOP does, also on the clock where the wait counter expires; in
\* WaitAutorefresh an AutoRefresh while a bank is busy does, a LoadModeRegister
\* after fewer than two AutoRefreshes or with address bits 11..10 not zero
\* does, and every command but NOP, AutoRefresh and LoadModeRegister does
C27_InitErrors ==
    \A in \in BusInputs :
        LET d == SDRAMSimulator_update(uut.dev, in.cmd, in.address, uut.banks)
            wrong ==
                CASE uut.dev.state = "WaitPrecharge" ->
                       ~(in.cmd = "NOP" \/ (in.cmd = "Precharge" /\ get_bit(in.address, 10)))
                  [] uut.dev.state \in {"Precharge", "LoadModeRegister"} ->
                       in.cmd # "NOP"
                  [] uut.dev.state = "WaitAutorefresh" ->
                       \/ in.cmd = "AutoRefresh" /\ \E i \in Banks : uut.banks[i].busy > 0
                       \/ in.cmd = "LoadModeRegister"
                            /\ (\/ uut.dev.auto_refresh_init_counter < 2
                                \/ (in.address \div 1024) % 4 # 0)
                       \/ in.cmd \notin {"NOP", "AutoRefresh", "LoadModeRegister"}
                  [] OTHER -> FALSE
        IN  wrong => d.state = "Error"

\* a command that arrived on the clock where the Precharge wait expired
C27_Witness ==
    /\ trace.prev = "Precharge"
    /\ uut.dev.state = "Error"
    /\ uut.dev.counter = uut.dev.t_rp + 1

C27_WitnessAutorefresh ==
    /\ trace.prev = "WaitAutorefresh"
    /\ uut.dev.state = "Error"
    /\ uut.dev.auto_refresh_init_counter >= 2
    /\ ~BankError

\* ---------------------------------------------------------------------
\* SPIMasterDynamicMode<N> (spi/master_dynamic_mode.rs)

\* N: the width of the data registers
SpiN == 3

SpiWords == 0 .. (2 ^ SpiN) - 1

\* Bits<N>::replace_bit
replace_bit(v, i, b) ==
    v - (IF get_bit(v, i) THEN 2 ^ i ELSE 0) + (IF b THEN 2 ^ i ELSE 0)

\* SPIMasterDynamicMode::new(config): the flip-flops at their defaults, msel
\* at cs_off
SPIMasterDynamicMode_new(cs_off, mosi_off) ==
    [state |-> "Idle", register_out |-> 0, register_in |-> 0, pointer |-> 0,
     clock_state |-> FALSE, done_flop |-> FALSE, msel_flop |-> cs_off,
     mosi_flop |-> FALSE, continued_save |-> FALSE, cpha_flop |-> FALSE,
     cpol_flop |-> FALSE, cs_off |-> cs_off, mosi_off |-> mosi_off]

\* a LoadBit that sends the bit under the pointer before decrementing it
LoadBit_atpointer(u) ==
    IF u.pointer # 0
    THEN [u EXCEPT !.mosi_flop = get_bit(u.register_out, u.pointer),
                   !.pointer = (u.pointer - 1) % (2 ^ 16),
                   !.state = "MActive",
                   !.clock_state = (u.cpol_flop # u.cpha_flop)]
    ELSE [u EXCEPT !.mosi_flop = u.mosi_off,
                   !.clock_state = u.cpol_flop,
                   !.state = "Finish"]

\* the LoadBit arm of SPIMasterDynamicMode::update
LoadBit(u) ==
    LET pointerm1 == (u.pointer - 1) % (2 ^ 16)
    IN  IF u.pointer # 0
        THEN [u EXCEPT !.mosi_flop = get_bit(u.register_out, pointerm1),
                       !.pointer = pointerm1,
                       !.state = "MActive",
                       !.clock_state = (u.cpol_flop # u.cpha_flop)]
        ELSE [u EXCEPT !.mosi_flop = u.mosi_off,
                       !.clock_state = u.cpol_flop,
                       !.state = "Finish"]

\* a SampleMISO that stores the sample one bit higher
SampleMISO_high(u, miso) ==
    [u EXCEPT !.register_in = replace_bit(u.register_in, u.pointer + 1, miso),
              !.clock_state = ~u.clock_state,
              !.state = "MIdle"]

\* the SampleMISO arm of SPIMasterDynamicMode::update
SampleMISO(u, miso) ==
    [u EXCEPT !.register_in = replace_bit(u.register_in, u.pointer, miso),
              !.clock_state = ~u.clock_state,
              !.state = "MIdle"]

\* an Activate that leaves the chip select as it is
Activate_noselect(u, strobe) ==
    IF strobe THEN [u EXCEPT !.state = "Dwell"] ELSE u

\* the Activate arm of SPIMasterDynamicMode::update
Activate(u, strobe) ==
    IF strobe THEN [u EXCEPT !.msel_flop = ~u.cs_off, !.state = "Dwell"] ELSE u

\* a Finish that raises done while it waits for the strobe
Finish_early(u, strobe) ==
    IF strobe THEN [u EXCEPT !.done_flop = TRUE, !.state = "Idle"]
    ELSE [u EXCEPT !.done_flop = TRUE]

\* the Finish arm of SPIMasterDynamicMode::update
Finish(u, strobe) ==
    IF strobe THEN [u EXCEPT !.done_flop = TRUE, !.state = "Idle"] ELSE u

\* SPIMasterDynamicMode::update: the d inputs of the flip-flops, with strobe
\* the output of the baud strobe and miso the output of the MISO synchronizer
SPIMasterDynamicMode_update(u, start_send, bits_outbound, data_outbound, continued_transaction, miso, strobe) ==
    LET d == [u EXCEPT !.done_flop = FALSE]
    IN  CASE u.state = "Idle" ->
               IF start_send
               THEN [d EXCEPT !.clock_state = u.cpol_flop,
                              !.register_out = data_outbound,
                              !.state = "SetMode",
                              !.pointer = bits_outbound % 256,
                              !.cpha_flop = get_bit(bits_outbound, 9),
                              !.cpol_flop = get_bit(bits_outbound, 8),
                              !.register_in = 0,
                              !.continued_save = continued_transaction,
                              !.mosi_flop = u.mosi_off]
               ELSE [d EXCEPT !.clock_state = u.cpol_flop,
                              !.msel_flop = IF ~u.continued_save THEN u.cs_off ELSE @,
                              !.mosi_flop = u.mosi_off]
          [] u.state = "SetMode" ->
               [d EXCEPT !.clock_state = u.cpol_flop,
                         !.state = IF strobe THEN "Activate" ELSE @]
          [] u.state = "Activate" -> Activate(d, strobe)
          [] u.state = "Dwell" ->
               [d EXCEPT !.state = IF strobe THEN "LoadBit" ELSE @]
          [] u.state = "LoadBit" -> LoadBit(d)
          [] u.state = "MActive" ->
               [d EXCEPT !.state = IF strobe THEN "SampleMISO" ELSE @]
          [] u.state = "SampleMISO" -> SampleMISO(d, miso)
          [] u.state = "MIdle" ->
               [d EXCEPT !.state = IF strobe THEN "LoadBit" ELSE @]
          [] u.state = "Finish" -> Finish(d, strobe)
          [] OTHER -> [d EXCEPT !.state = "Idle"]

\* the states one transaction of n bits passes through after Idle
RECURSIVE Rounds(_)
Rounds(n) ==
    IF n = 0 THEN <<>>
    ELSE <<"LoadBit", "MActive", "SampleMISO", "MIdle">> \o Rounds(n - 1)

Expected(n) ==
    <<"SetMode", "Activate", "Dwell">> \o Rounds(n) \o <<"LoadBit", "Finish", "Idle">>

IsPrefix(s, t) == Len(s) <= Len(t) /\ \A i \in 1 .. Len(s) : s[i] = t[i]

\* the bits_outbound words: n in bits 7..0, cpol in bit 8, cpha in bit 9
BitsOutbound == {n + 256 * m : n \in 0 .. SpiN, m \in 0 .. 3}

InitSpi ==
    /\ \E cs_off \in BOOLEAN, mosi_off \in BOOLEAN :
          uut = SPIMasterDynamicMode_new(cs_off, mosi_off)
    /\ trace = [started |-> FALSE, path |-> <<>>, n |-> 0, data |-> 0, mosi |-> <<>>,
                samples |-> <<>>, pulses |-> 0]
    /\ NoOlder

\* one rising clock edge; inputs the state machine does not read in its
\* current state are held at their idle values
SpiClock(start_send, bits_outbound, data_outbound, continued_transaction, miso, strobe) ==
    /\ start_send => uut.state = "Idle"
    /\ uut.state # "SampleMISO" => ~miso
    /\ uut.state \in {"Idle", "LoadBit", "SampleMISO"} => ~strobe
    /\ uut' = SPIMasterDynamicMode_update(uut, start_send, bits_outbound, data_outbound,
                                          continued_transaction, miso, strobe)
    /\ trace' =
          IF uut.state = "Idle" /\ start_send
          THEN [started |-> TRUE, path |-> <<"SetMode">>, n |-> bits_outbound % 256,
                data |-> data_outbound, mosi |-> <<>>, samples |-> <<>>, pulses |-> 0]
          ELSE [trace EXCEPT
                  !.path = IF uut'.state # uut.state /\ Len(@) > 0 /\ Len(@) < Len(Expected(SpiN)) + 1
                           THEN Append(@, uut'.state) ELSE @,
                  !.mosi = IF uut.state = "LoadBit" /\ uut'.state = "MActive"
                           THEN Append(@, uut'.mosi_flop) ELSE @,
                  !.samples = IF uut.state = "SampleMISO" THEN Append(@, miso) ELSE @,
                  !.pulses = IF uut'.clock_state # uut.clock_state
                                /\ \E i \in 1 .. Len(trace.path) : trace.path[i] = "LoadBit"
                             THEN @ + 1 ELSE @]
    /\ UNCHANGED olderVars

\* the test bench raises start_send with a word to send
SpiStart ==
    \E bits_outbound \in BitsOutbound, data_outbound \in SpiWords,
       continued_transaction \in BOOLEAN :
        SpiClock(TRUE, bits_outbound, data_outbound, continued_transaction, FALSE, FALSE)

\* start_send is low
SpiRun ==
    \E miso \in BOOLEAN, strobe \in BOOLEAN : SpiClock(FALSE, 0, 0, FALSE, miso, strobe)

NextSpi == SpiStart \/ SpiRun

SpecSpi == InitSpi /\ [][NextSpi]_vars

\* the value the samples make: the i-th of them (from 0) at bit n - 1 - i
RECURSIVE Assemble(_, _)
Assemble(samples, n) ==
    IF samples = <<>> THEN 0
    ELSE (IF Head(samples) THEN 2 ^ (n - 1) ELSE 0) + Assemble(Tail(samples), n - 1)

\* C30: a transaction started by start_send in Idle with n = bits_outbound &
\* 0xFF, n <= N, passes through SetMode, Activate, Dwell, n rounds of LoadBit,
\* MActive, SampleMISO, MIdle, and then LoadBit, Finish, Idle; MOSI carries
\* bits n-1 down to 0 of the latched data_outbound in that order, the i-th MISO
\* sample is stored at bit n-1-i of data_inbound, and with n = 0 the clock line
\* does not change from the first LoadBit on
C30_Transaction ==
    trace.started =>
        /\ IsPrefix(trace.path, Expected(trace.n))
        /\ Len(trace.mosi) <= trace.n
        /\ \A i \in 1 .. Len(trace.mosi) :
              trace.mosi[i] = get_bit(trace.data, trace.n - i)
        /\ uut.register_out = trace.data
        /\ Len(trace.samples) <= trace.n
        /\ uut.register_in = Assemble(trace.samples, trace.n)
        /\ trace.n = 0 => trace.pulses = 0
        /\ uut.done_flop => trace.path = Expected(trace.n)

C30_Witness ==
    /\ trace.n = 3
    /\ trace.path = Expected(3)
    /\ uut.done_flop
    /\ trace.data = 5
    /\ trace.samples = <<TRUE, TRUE, FALSE>>
    /\ uut.register_in = 6

C30_WitnessNoBits ==
    /\ trace.started
    /\ trace.n = 0
    /\ trace.path = Expected(0)
    /\ uut.done_flop

\* ---------------------------------------------------------------------
\* SPIMasterDynamicMode<N>: chip select, busy and transfer_done over several
\* transactions, with start_send free in every state

\* the outputs of SPIMasterDynamicMode::update
SPIMasterDynamicMode_busy(u) == u.state # "Idle"

SPIMasterDynamicMode_transfer_done(u) == u.done_flop

SPIMasterDynamicMode_msel(u) == u.msel_flop

\* the states of a transaction after Activate
Selected == {"Dwell", "LoadBit", "MActive", "SampleMISO", "MIdle", "Finish"}

\* the data words the test bench sends
MselWords == {0, 5}

InitMsel ==
    /\ \E cs_off \in BOOLEAN : uut = SPIMasterDynamicMode_new(cs_off, FALSE)
    /\ trace = [prev |-> "none", txns |-> 0, cont |-> FALSE, held |-> FALSE,
                data |-> 0, bits |-> 0, refused |-> FALSE, dones |-> 0]
    /\ NoOlder

\* one rising clock edge. trace keeps what the test bench knows: the state
\* before the edge, the inputs of the last start_send raised in Idle, whether a
\* continued transaction has selected the chip and no transaction without
\* continued_transaction has finished since, whether a start_send was raised
\* while busy, and the clocks transfer_done was high in this transaction
MselClock(start_send, bits_outbound, data_outbound, continued_transaction, miso, strobe) ==
    /\ uut.state # "SampleMISO" => ~miso
    /\ uut.state \in {"Idle", "LoadBit", "SampleMISO"} => ~strobe
    /\ uut' = SPIMasterDynamicMode_update(uut, start_send, bits_outbound, data_outbound,
                                          continued_transaction, miso, strobe)
    /\ LET accepted == start_send /\ ~SPIMasterDynamicMode_busy(uut)
           cont == IF accepted THEN continued_transaction ELSE trace.cont
       IN  trace' =
             [prev |-> uut.state,
              txns |-> IF accepted THEN 1 ELSE trace.txns,
              cont |-> cont,
              held |-> IF uut.state = "Activate" /\ strobe /\ cont THEN TRUE
                       ELSE IF uut.state = "Finish" /\ strobe /\ ~cont THEN FALSE
                       ELSE trace.held,
              data |-> IF accepted THEN data_outbound ELSE trace.data,
              bits |-> IF accepted THEN bits_outbound ELSE trace.bits,
              refused |-> IF accepted THEN FALSE
                          ELSE trace.refused \/ (start_send /\ SPIMasterDynamicMode_busy(uut)),
              dones |-> IF accepted THEN 0
                        ELSE IF SPIMasterDynamicMode_transfer_done(uut') /\ trace.dones < 2
                        THEN trace.dones + 1 ELSE trace.dones]
    /\ UNCHANGED olderVars

\* the test bench raises start_send, in Idle or while the master is busy
MselStart ==
    \E bits_outbound \in BitsOutbound, data_outbound \in MselWords,
       continued_transaction \in BOOLEAN :
        MselClock(TRUE, bits_outbound, data_outbound, continued_transaction, FALSE, FALSE)

\* start_send is low
MselRun ==
    \E miso \in BOOLEAN, strobe \in BOOLEAN : MselClock(FALSE, 0, 0, FALSE, miso, strobe)

NextMsel == MselStart \/ MselRun

SpecMsel == InitMsel /\ [][NextMsel]_vars

\* C31: msel is at !cs_off in every state of a transaction after Activate;
\* after a clock in Idle without start_send it is at cs_off when the last
\* transaction was started without continued_transaction; and once a
\* transaction started with continued_transaction has selected the chip, msel
\* stays at !cs_off, in Idle as well, until a transaction started without
\* continued_transaction has finished
C31_ChipSelect ==
    /\ uut.state \in Selected => SPIMasterDynamicMode_msel(uut) = ~uut.cs_off
    /\ (uut.state = "Idle" /\ trace.prev = "Idle" /\ ~trace.cont)
          => SPIMasterDynamicMode_msel(uut) = uut.cs_off
    /\ trace.held => SPIMasterDynamicMode_msel(uut) = ~uut.cs_off

\* a continued transaction has finished, the master has idled, and a second
\* transaction without continued_transaction is under way with the chip still
\* selected before its Activate
C31_Witness ==
    /\ trace.held
    /\ ~trace.cont
    /\ uut.state = "SetMode"
    /\ SPIMasterDynamicMode_msel(uut) = ~uut.cs_off

\* back in Idle for a second clock after a transaction without
\* continued_transaction: the chip is released
C31_WitnessReleased ==
    /\ trace.txns = 1
    /\ trace.dones = 1
    /\ ~trace.cont
    /\ uut.state = "Idle"
    /\ trace.prev = "Idle"
    /\ SPIMasterDynamicMode_msel(uut) = uut.cs_off

\* C32: busy is high from the clock after a start_send raised in Idle until
\* transfer_done, that is exactly while the state is not Idle; transfer_done
\* is high exactly in the first Idle clock after Finish, once per transaction;
\* a start_send raised while busy changes nothing, and register_out, the bit
\* count, cpol, cpha and continued_save hold what the last start_send raised
\* in Idle gave them
C32_BusyDoneLatch ==
    /\ SPIMasterDynamicMode_busy(uut) <=> (trace.txns = 1 /\ trace.dones = 0)
    /\ SPIMasterDynamicMode_busy(uut) <=> uut.state # "Idle"
    /\ SPIMasterDynamicMode_transfer_done(uut)
          <=> (trace.prev = "Finish" /\ uut.state = "Idle")
    /\ trace.dones <= 1
    /\ SPIMasterDynamicMode_busy(uut) =>
          \A bits_outbound \in BitsOutbound, data_outbound \in MselWords,
             continued_transaction \in BOOLEAN, miso \in BOOLEAN, strobe \in BOOLEAN :
              SPIMasterDynamicMode_update(uut, TRUE, bits_outbound, data_outbound,
                                          continued_transaction, miso, strobe)
                = SPIMasterDynamicMode_update(uut, FALSE, 0, 0, FALSE, miso, strobe)
    /\ trace.txns = 1 =>
          /\ uut.register_out = trace.data
          /\ uut.cpol_flop = get_bit(trace.bits, 8)
          /\ uut.cpha_flop = get_bit(trace.bits, 9)
          /\ uut.continued_save = trace.cont
          /\ uut.pointer <= trace.bits % 256
          /\ uut.state \in {"SetMode", "Activate", "Dwell"} => uut.pointer = trace.bits % 256

\* a transaction during which start_send was raised while busy has finished:
\* transfer_done is high and the latched word is the one given in Idle
C32_Witness ==
    /\ trace.refused
    /\ SPIMasterDynamicMode_transfer_done(uut)
    /\ trace.dones = 1
    /\ trace.data = 5
    /\ trace.bits = 3 + 256
    /\ uut.register_out = 5
    /\ uut.cpol_flop

\* ---------------------------------------------------------------------
\* ADS868XSimulator (ads868x_sim.rs) behind the ports of its SPISlave<32>.
\* A Bits<32> word is kept as its two 16-bit halves [hi, lo].

\* the NOP frames prepared in one behaviour
MaxNops == 4

\* Bits::xor: the parity of the bits
RECURSIVE Bits_xor(_)
Bits_xor(v) == IF v = 0 THEN FALSE ELSE (v % 2 = 1) # Bits_xor(v \div 2)

\* the | of two words
RECURSIVE BitOr(_, _)
BitOr(a, b) ==
    IF a = 0 THEN b
    ELSE IF b = 0 THEN a
    ELSE (IF a % 2 = 1 \/ b % 2 = 1 THEN 1 ELSE 0) + 2 * BitOr(a \div 2, b \div 2)

Word32(hi, lo) == [hi |-> hi, lo |-> lo]

\* what the master sends: NOP, write word 0x0002 and 0x00F0 to address 4,
\* write LSB and write MSB at address 4, read word and read byte at address 4
MasterWords ==
    {Word32(0, 0), Word32(53252, 2), Word32(53252, 240), Word32(54276, 240),
     Word32(53764, 4608), Word32(51204, 0), Word32(18436, 0)}

\* ADS868XSimulator::new: the flip-flops at their defaults
ADS868XSimulator_new ==
    [state |-> "Ready", conversion_counter |-> 0, inbound |-> Word32(0, 0)]

BoolBit(b) == IF b THEN 1 ELSE 0

\* the data_outbound of the Nop arm: counter << 16 | (read_data & 0xFF) << 12
\* | data_parity << 8 | (data_parity ^ id_parity) << 9
NopFrame(counter, read_data) ==
    LET data_parity == Bits_xor(counter)
        id_parity == Bits_xor(read_data % 256)
        id == read_data % 256
    IN  Word32(BitOr(counter, id \div 16),
               ((id % 16) * 4096) + BoolBit(data_parity) * 256
                   + BoolBit(data_parity # id_parity) * 512)

\* ADS868XSimulator::update: the d inputs of its flip-flops and what it
\* drives into the RAM and the SPI slave
ADS868XSimulator_update(u, read_data, busy, transfer_done, data_inbound) ==
    LET read_cmd == u.inbound.hi \div 2048
        write_cmd == u.inbound.hi \div 512
        address == u.inbound.hi % 512
        reg == (address \div 2) % 32
        o == [state |-> u.state, conversion_counter |-> u.conversion_counter,
              inbound |-> u.inbound, start_send |-> FALSE, bits |-> 0,
              data_outbound |-> Word32(0, 0), write_enable |-> FALSE, write_data |-> 0,
              write_address |-> reg, read_address |-> 0]
    IN  CASE u.state = "Ready" ->
               IF ~busy THEN [o EXCEPT !.state = "Nop"] ELSE o
          [] u.state = "Waiting" ->
               IF transfer_done
               THEN [o EXCEPT !.inbound = data_inbound, !.state = "Dispatch"]
               ELSE o
          [] u.state = "Dispatch" ->
               IF read_cmd = 25 THEN [o EXCEPT !.state = "ReadWordCmd", !.read_address = reg]
               ELSE IF read_cmd = 9 THEN [o EXCEPT !.state = "ReadByteCmd", !.read_address = reg]
               ELSE IF write_cmd = 104 THEN [o EXCEPT !.state = "WriteWordCmd"]
               ELSE IF write_cmd = 105 THEN [o EXCEPT !.state = "WriteMSBCmd", !.read_address = reg]
               ELSE IF write_cmd = 106 THEN [o EXCEPT !.state = "WriteLSBCmd", !.read_address = reg]
               ELSE [o EXCEPT !.read_address = 2, !.state = "Nop"]
          [] u.state = "ReadWordCmd" ->
               [o EXCEPT !.data_outbound = Word32(0, read_data), !.bits = 16,
                         !.start_send = TRUE, !.state = "Waiting"]
          [] u.state = "ReadByteCmd" ->
               [o EXCEPT !.data_outbound = IF address % 2 = 1
                                           THEN Word32(0, read_data \div 256)
                                           ELSE Word32(0, read_data % 256),
                         !.bits = 8, !.start_send = TRUE, !.state = "Waiting"]
          [] u.state = "WriteWordCmd" ->
               [o EXCEPT !.write_data = u.inbound.lo, !.write_enable = TRUE,
                         !.state = "WriteDone"]
          [] u.state = "WriteLSBCmd" ->
               [o EXCEPT !.write_data = (u.inbound.lo % 256) + 256 * (read_data \div 256),
                         !.write_enable = TRUE, !.state = "WriteDone"]
          [] u.state = "WriteMSBCmd" ->
               [o EXCEPT !.write_data = 256 * (u.inbound.lo \div 256) + (read_data % 256),
                         !.write_enable = TRUE, !.state = "WriteDone"]
          [] u.state = "WriteDone" ->
               [o EXCEPT !.bits = 32, !.data_outbound = u.inbound, !.start_send = TRUE,
                         !.state = "Waiting"]
          [] u.state = "Nop" ->
               [o EXCEPT !.bits = 32,
                         !.data_outbound = NopFrame(u.conversion_counter, read_data),
                         !.start_send = TRUE, !.state = "Waiting",
                         !.conversion_counter = (u.conversion_counter + 1) % (2 ^ 16)]
          [] OTHER -> [o EXCEPT !.state = "Ready"]

\* SPISlave<32> at its ports: Boot ends, start_send in Idle latches the frame,
\* and the transaction that follows ends with done and the word received.
\* ev is "none", "boot" or "done", w the word a finishing transaction brought.
SPISlave_port(s, start_send, data_outbound, bits, ev, w) ==
    LET d == [s EXCEPT !.done_flop = FALSE]
    IN  CASE s.state = "Boot" -> IF ev = "boot" THEN [d EXCEPT !.state = "Idle"] ELSE d
          [] s.state = "Idle" ->
               IF start_send
               THEN [d EXCEPT !.register_out = data_outbound, !.bits_saved = bits,
                              !.register_in = Word32(0, 0), !.state = "Armed"]
               ELSE d
          [] OTHER ->
               IF ev = "done"
               THEN [d EXCEPT !.done_flop = TRUE, !.register_in = w, !.state = "Idle"]
               ELSE d

InitAdc ==
    /\ uut = [adc |-> ADS868XSimulator_new,
              ram |-> [_sim |-> [a \in {} |-> 0], read_data |-> BitsDefault],
              slave |-> [state |-> "Boot", done_flop |-> FALSE,
                         register_out |-> Word32(0, 0), register_in |-> Word32(0, 0),
                         bits_saved |-> 0]]
    /\ trace = [nops |-> 0, counter |-> 0, prev |-> 0, id |-> 0, frame |-> Word32(0, 0)]
    /\ NoOlder

\* one rising clock edge of the simulator, its RAM and its slave
AdcClock(ev, w) ==
    /\ ev = "boot" => uut.slave.state = "Boot"
    /\ ev = "done" => uut.slave.state = "Armed"
    /\ uut.adc.state = "Nop" => trace.nops < MaxNops
    /\ LET o == ADS868XSimulator_update(uut.adc, uut.ram.read_data,
                                        uut.slave.state # "Idle", uut.slave.done_flop,
                                        uut.slave.register_in)
       IN  /\ uut' = [adc |-> [state |-> o.state,
                               conversion_counter |-> o.conversion_counter,
                               inbound |-> o.inbound],
                      ram |-> RAM_update(uut.ram, TRUE, TRUE, o.read_address,
                                         o.write_address, o.write_data, o.write_enable),
                      slave |-> SPISlave_port(uut.slave, o.start_send, o.data_outbound,
                                              o.bits, ev, w)]
           /\ trace' = IF uut.adc.state = "Nop"
                       THEN [nops |-> trace.nops + 1, counter |-> uut.adc.conversion_counter,
                             prev |-> trace.counter, id |-> uut.ram.read_data % 256,
                             frame |-> o.data_outbound]
                       ELSE trace
    /\ UNCHANGED olderVars

AdcTick == AdcClock("none", Word32(0, 0))

AdcBoot == AdcClock("boot", Word32(0, 0))

AdcTransfer == \E w \in MasterWords : AdcClock("done", w)

NextAdc == AdcTick \/ AdcBoot \/ AdcTransfer

SpecAdc == InitAdc /\ [][NextAdc]_vars

\* C26: every NOP frame carries the conversion counter in bits 31..16 whatever
\* the registers hold, the counter of one NOP frame is that of the one before
\* plus 1 (mod 2^16), and bit 8 of the frame is the parity of the counter
C26_NopFrame ==
    trace.nops > 0 =>
        /\ trace.frame.hi = trace.counter
        /\ get_bit(trace.frame.lo, 8) = Bits_xor(trace.counter)
        /\ trace.nops > 1 => trace.counter = (trace.prev + 1) % (2 ^ 16)

\* what holds of C26: parity and count always, the counter field while the
\* register read for the frame is below 16
C26_CounterAndParity ==
    trace.nops > 0 =>
        /\ get_bit(trace.frame.lo, 8) = Bits_xor(trace.counter)
        /\ trace.nops > 1 => trace.counter = (trace.prev + 1) % (2 ^ 16)
        /\ trace.id < 16 => trace.frame.hi = trace.counter

\* ---------------------------------------------------------------------
\* AD7193Simulator (ad7193_sim.rs) with its SPISlave<64> (spi/slave.rs), its
\* register RAM and its one-shot, driven as Test7193 drives it.
\* A Bits<64> or Bits<32> word is kept as the set of the positions of its one
\* bits.

\* the clocks of half an SPI bit: clock_speed / (2 * speed_hz), scaled
HalfBit == 6

\* the bits of one transaction of the test bench
TxnBits == 32

Ones(n) == 0 .. n - 1

\* the word of a number below 2^31, and back
ToBits(v) == {i \in 0 .. 30 : get_bit(v, i)}

RECURSIVE FromBits(_)
FromBits(S) ==
    IF S = {} THEN 0
    ELSE LET i == CHOOSE j \in S : TRUE IN (2 ^ i) + FromBits(S \ {i})

\* w << k and w >> k in 64 bits
Shl(S, k) == {i + k : i \in S} \cap Ones(64)
Shr(S, k) == {i - k : i \in S} \cap Ones(64)

\* SPISlave::new(config): the flip-flops at their defaults
SPISlave_new(clocks_per_baud, cpha, cs_off) ==
    [state |-> "Boot", miso_flop |-> FALSE, done_flop |-> FALSE, register_out |-> {},
     register_in |-> {}, pointer |-> 0, bits_saved |-> 0, continued_saved |-> FALSE,
     escape |-> 0, boot_delay |-> 0, clocks_per_baud |-> clocks_per_baud,
     cpha |-> cpha, cs_off |-> cs_off]

\* wires.miso as SPISlave::update drives it
SPISlave_miso(s) == IF s.state # "Disabled" THEN s.miso_flop ELSE TRUE

\* busy as SPISlave::update drives it
SPISlave_busy(s, csel) == s.state # "Idle" \/ csel # s.cs_off

\* SPISlave::update: the d inputs of its flip-flops.  w holds the synchronized
\* chip select csel, the pulses of the three edge detectors and mosi; f holds
\* start_send, bits, data_outbound, continued_transaction and disabled.
SPISlave_update(s, w, f) ==
    LET off == (w.csel = s.cs_off)
        d0 == [s EXCEPT !.done_flop = FALSE,
                        !.miso_flop = s.pointer \in s.register_out,
                        !.boot_delay = (s.boot_delay + 1) % 16]
        done == [d0 EXCEPT !.done_flop = TRUE, !.state = "Idle"]
    IN  CASE s.state = "Boot" ->
               IF s.boot_delay = 8 THEN [d0 EXCEPT !.state = "Idle"] ELSE d0
          [] s.state = "Idle" ->
               IF w.edge
               THEN [d0 EXCEPT !.register_in = {}, !.state = "Waiting",
                               !.pointer = 0, !.escape = 0]
               ELSE IF f.start_send
               THEN [d0 EXCEPT !.register_out = f.data_outbound,
                               !.bits_saved = f.bits,
                               !.continued_saved = f.continued_transaction,
                               !.pointer = (f.bits - 1) % (2 ^ 16),
                               !.register_in = {},
                               !.state = "Armed"]
               ELSE IF f.disabled THEN [d0 EXCEPT !.state = "Disabled"]
               ELSE d0
          [] s.state = "Armed" ->
               IF ~off
               THEN [d0 EXCEPT !.state = IF s.cpha /\ ~s.continued_saved
                                         THEN "Waiting" ELSE "Settle"]
               ELSE d0
          [] s.state = "Waiting" ->
               LET d1 == IF w.advance THEN [d0 EXCEPT !.state = "Settle"] ELSE d0
                   d2 == IF s.cpha /\ ~s.continued_saved /\ off
                         THEN [d1 EXCEPT !.state = "Idle"] ELSE d1
               IN  IF ~s.cpha /\ off
                   THEN [d2 EXCEPT !.escape = (s.escape + 1) % (2 ^ 16),
                                   !.state = IF s.escape = (2 ^ 16) - 1 THEN "Idle" ELSE @]
                   ELSE d2
          [] s.state = "Settle" ->
               IF off THEN [d0 EXCEPT !.state = "Idle"]
               ELSE IF w.capture THEN [d0 EXCEPT !.state = "Capture"]
               ELSE d0
          [] s.state = "Capture" ->
               [d0 EXCEPT !.register_in = Shl(s.register_in, 1)
                                             \cup (IF w.mosi THEN {0} ELSE {}),
                          !.state = "Hold"]
          [] s.state = "Hold" ->
               LET d1 == IF w.advance
                         THEN (IF s.pointer # 0
                               THEN [d0 EXCEPT !.state = "Update", !.escape = 0]
                               ELSE IF s.continued_saved
                               THEN [done EXCEPT !.escape = 0]
                               ELSE [d0 EXCEPT !.state = "Hangup", !.escape = 0])
                         ELSE IF off THEN done
                         ELSE [d0 EXCEPT !.escape = (s.escape + 1) % (2 ^ 16)]
               IN  IF s.escape = s.clocks_per_baud
                   THEN [d1 EXCEPT !.done_flop = TRUE, !.state = "Idle"]
                   ELSE d1
          [] s.state = "Update" ->
               [d0 EXCEPT !.pointer = IF s.pointer # 0 THEN s.pointer - 1 ELSE @,
                          !.state = "Settle"]
          [] s.state = "Hangup" ->
               LET d1 == IF off THEN done ELSE d0
               IN  IF f.disabled THEN [d1 EXCEPT !.state = "Disabled"] ELSE d1
          [] s.state = "Disabled" ->
               IF ~f.disabled THEN [d0 EXCEPT !.state = "Idle", !.register_out = {}] ELSE d0
          [] OTHER -> [d0 EXCEPT !.state = "Boot"]

AD7193_REG_WIDTHS == <<8, 24, 24, 24, 8, 8, 24, 24>>

\* 0x40, 0x80060, 0x117, 0x0, 0xa2, 0x0, 0x800000, 0x5544d0
AD7193_REG_INITS == <<64, 524384, 279, 0, 162, 0, 8388608, 5588176>>

\* AD7193Simulator::new(config): the FSM flip-flops at their defaults (state
\* Init), the RAM holding AD7193_REG_INITS, the one-shot set for sample_time
AD7193Simulator_new(sample_clocks) ==
    [state |-> "Init", reg_write_index |-> 0, conversion_counter |-> 0,
     reg_ram |-> [_sim |-> [k \in 0 .. 7 |-> AD7193_REG_INITS[k + 1]],
                  read_data |-> BitsDefault],
     oneshot |-> Shot_new(sample_clocks)]

\* a ReadCmd that sends the register without the shift over the trailer
ReadCmd_unshifted(o, read_data, width) ==
    [o EXCEPT !.continued_transaction = TRUE,
              !.bits = width + 8,
              !.data_outbound = ToBits(read_data) \cup ToBits(186),
              !.start_send = TRUE,
              !.state = "WaitSlaveIdle"]

\* the ReadCmd arm of AD7193Simulator::update
ReadCmd(o, read_data, width) ==
    [o EXCEPT !.continued_transaction = TRUE,
              !.bits = width + 8,
              !.data_outbound = Shl(ToBits(read_data), 8) \cup ToBits(186),
              !.start_send = TRUE,
              !.state = "WaitSlaveIdle"]

\* a commit that leaves the conversion counter as it is
SingleConversionCommit_still(o, conversion_counter) ==
    [o EXCEPT !.write_address = 3,
              !.write_data = conversion_counter,
              !.write_enable = TRUE,
              !.data_outbound = {},
              !.state = "Ready"]

\* the SingleConversionCommit arm of AD7193Simulator::update
SingleConversionCommit(o, conversion_counter) ==
    [o EXCEPT !.write_address = 3,
              !.write_data = conversion_counter,
              !.write_enable = TRUE,
              !.conversion_counter = (conversion_counter + 256) % (2 ^ 24),
              !.data_outbound = {},
              !.state = "Ready"]

\* AD7193Simulator::update: the d inputs of its flip-flops and what it drives
\* into the slave, the RAM and the one-shot.  transfer_done, data_inbound and
\* busy come from the slave, fired from the one-shot.
AD7193Simulator_update(u, transfer_done, data_inbound, busy, fired) ==
    LET cmd == data_inbound \cap Ones(8)
        reg_index == FromBits(Shr(cmd, 3) \cap Ones(3))
        rw_flag == 6 \in cmd
        width == AD7193_REG_WIDTHS[reg_index + 1]
        read_data == u.reg_ram.read_data
        o == [state |-> u.state, reg_write_index |-> u.reg_write_index,
              conversion_counter |-> u.conversion_counter,
              start_send |-> FALSE, continued_transaction |-> FALSE, bits |-> 0,
              data_outbound |-> {}, disabled |-> FALSE,
              read_address |-> reg_index, write_address |-> reg_index,
              write_enable |-> FALSE, write_data |-> 0, trigger |-> FALSE]
        o1 == CASE u.state = "Init" ->
                     IF transfer_done THEN [o EXCEPT !.state = "Ready"] ELSE o
                [] u.state = "Ready" ->
                     [o EXCEPT !.continued_transaction = TRUE, !.bits = 8,
                               !.data_outbound = ToBits(255), !.start_send = TRUE,
                               !.state = "GettingCmd"]
                [] u.state = "GettingCmd" ->
                     IF ~transfer_done THEN o
                     ELSE IF rw_flag THEN [o EXCEPT !.state = "ReadCmd"]
                     ELSE [o EXCEPT !.reg_write_index = reg_index, !.state = "WriteCmd"]
                [] u.state = "ReadCmd" -> ReadCmd(o, read_data, width)
                [] u.state = "WriteCmd" ->
                     [o EXCEPT !.continued_transaction = TRUE, !.bits = width,
                               !.data_outbound = Ones(32), !.start_send = TRUE,
                               !.state = "DoWrite"]
                [] u.state = "DoWrite" ->
                     IF ~transfer_done THEN o
                     ELSE [o EXCEPT
                             !.write_data = FromBits(data_inbound \cap Ones(24)),
                             !.write_enable = TRUE,
                             !.write_address = u.reg_write_index,
                             !.state = IF u.reg_write_index = 1 /\ 21 \in data_inbound
                                       THEN "SingleConversion" ELSE "WaitSlaveIdle",
                             !.trigger = (u.reg_write_index = 1 /\ 21 \in data_inbound)]
                [] u.state = "WaitSlaveIdle" ->
                     IF ~busy THEN [o EXCEPT !.state = "Ready"] ELSE o
                [] u.state = "SingleConversion" ->
                     [o EXCEPT !.disabled = TRUE,
                               !.state = IF fired THEN "SingleConversionCommit" ELSE @]
                [] u.state = "SingleConversionCommit" ->
                     SingleConversionCommit(o, u.conversion_counter)
                [] OTHER -> [o EXCEPT !.state = "Init"]
    IN  IF transfer_done /\ data_inbound = Ones(64)
        THEN [o1 EXCEPT !.state = "Ready"] ELSE o1

\* the words of the test bench: reg_read, reg_write, the reset and the single
\* conversion of test_single_conversion (0x8382006)
reg_read(reg_index) == Shl(ToBits(64 + 8 * reg_index), 24)

reg_write(reg_index, reg_value) ==
    Shl(ToBits(8 * reg_index), 24)
        \cup (IF AD7193_REG_WIDTHS[reg_index + 1] = 8
              THEN Shl(ToBits(reg_value), 16) ELSE ToBits(reg_value))

\* the register value reg_read takes out of the word the master received
reg_val(reg_index, received) ==
    IF AD7193_REG_WIDTHS[reg_index + 1] = 8
    THEN FromBits(Shr(received, 16) \cap Ones(8))
    ELSE FromBits(received \cap Ones(24))

\* one transaction of the test bench: what it is, the word do_spi_txn sends,
\* whether it is continued, whether the test then watches for MISO low
Txn(kind, k, v, word, cont, watch) ==
    [kind |-> kind, k |-> k, v |-> v, word |-> word, cont |-> cont, watch |-> watch]

NoTxn == Txn("none", 0, 0, {}, FALSE, FALSE)
ResetTxn == Txn("reset", 0, 0, Ones(32), FALSE, FALSE)
ReadTxn(k) == Txn("read", k, 0, reg_read(k), FALSE, FALSE)
WriteTxn(k, v) == Txn("write", k, v, reg_write(k, v), FALSE, FALSE)
ConvTxn == Txn("conv", 1, 3678214, ToBits(8 * (2 ^ 24) + 3678214), TRUE, TRUE)

\* the values written to register k: the one of test_reg_writes, all ones,
\* and for the mode register its power-on value with bit 21 set (0x280060)
WriteValues(k) ==
    {AD7193_REG_INITS[k + 1] + 1, (2 ^ AD7193_REG_WIDTHS[k + 1]) - 1}
        \cup (IF k = 1 THEN {2621536} ELSE {})

\* test_reg_reads and test_reg_writes for one register, test_single_conversion
Programs ==
    UNION {{<<ResetTxn, ReadTxn(k), WriteTxn(k, v), ReadTxn(k)>> : v \in WriteValues(k)} :
              k \in 0 .. 7}
        \cup {<<ResetTxn, ConvTxn, ReadTxn(3), ConvTxn, ReadTxn(3), ConvTxn, ReadTxn(3)>>}

\* sample_time in clocks: one SPI bit as in AD7193Config::sw, or far longer
\* than a transaction start as in AD7193Config::hw
SampleClocks == {2 * HalfBit, 20 * HalfBit}

\* SPIMaster<64> and the test bench at the wires of the slave, with the
\* synchronizers and edge detectors of the slave: chip select low during a
\* transaction, an advance edge and a capture edge of mclk per bit (cpol =
\* cpha = 1), HalfBit clocks apart, mosi changing on the advance edge and miso
\* sampled on the capture edge, most significant bit first.
Master_new(prog) ==
    [prog |-> prog, mode |-> "gap", t |-> 0, edges |-> 0, csel |-> TRUE,
     edge |-> FALSE, advance |-> FALSE, capture |-> FALSE, mosi |-> TRUE,
     inb |-> {}, received |-> {}, op |-> NoTxn]

Master_step(e, miso) ==
    LET e0 == [e EXCEPT !.edge = FALSE, !.advance = FALSE, !.capture = FALSE]
        n == e.edges + 1
    IN  CASE e.mode = "gap" ->
               IF e.t < 2 * HalfBit THEN [e0 EXCEPT !.t = @ + 1]
               ELSE IF e.prog = <<>> THEN [e0 EXCEPT !.mode = "end"]
               ELSE [e0 EXCEPT !.mode = "txn", !.t = 0, !.edges = 0, !.csel = FALSE,
                               !.edge = e.csel, !.inb = {}]
          [] e.mode = "txn" ->
               IF e.t < HalfBit - 1 THEN [e0 EXCEPT !.t = @ + 1]
               ELSE IF e.edges < 2 * TxnBits
               THEN (IF n % 2 = 1
                     THEN [e0 EXCEPT !.advance = TRUE, !.edges = n, !.t = 0,
                                     !.mosi = (TxnBits - 1 - ((n - 1) \div 2))
                                                  \in Head(e.prog).word]
                     ELSE [e0 EXCEPT !.capture = TRUE, !.edges = n, !.t = 0,
                                     !.inb = IF miso THEN @ \cup {TxnBits - (n \div 2)}
                                             ELSE @])
               ELSE [e0 EXCEPT !.csel = IF Head(e.prog).cont THEN @ ELSE TRUE,
                               !.mosi = TRUE,
                               !.received = e.inb,
                               !.op = Head(e.prog),
                               !.prog = Tail(e.prog),
                               !.mode = IF Head(e.prog).watch THEN "watch" ELSE "gap",
                               !.t = 0]
          [] e.mode = "watch" ->
               IF miso THEN e0 ELSE [e0 EXCEPT !.mode = "gap", !.t = 0]
          [] OTHER -> e0

Init7193 ==
    /\ \E prog \in Programs, sample_clocks \in SampleClocks :
          uut = [adc |-> AD7193Simulator_new(sample_clocks),
                 slave |-> SPISlave_new(4 * HalfBit, TRUE, TRUE),
                 master |-> Master_new(prog)]
    /\ trace = [prev |-> NoTxn, wrote |-> FALSE, convs |-> 0, was |-> "Init"]
    /\ NoOlder

\* one rising clock edge of Test7193
Clock7193 ==
    /\ uut.master.mode # "end"
    /\ LET s == uut.slave
           m == uut.master
           fired == Shot_update(uut.adc.oneshot, FALSE).fired
           o == AD7193Simulator_update(uut.adc, s.done_flop, s.register_in,
                                       SPISlave_busy(s, m.csel), fired)
           m1 == Master_step(m, SPISlave_miso(s))
           finished == m1.op # m.op \/ Len(m1.prog) # Len(m.prog)
       IN  /\ uut' = [adc |-> [state |-> o.state,
                               reg_write_index |-> o.reg_write_index,
                               conversion_counter |-> o.conversion_counter,
                               reg_ram |-> RAM_update(uut.adc.reg_ram, TRUE, TRUE,
                                                      o.read_address, o.write_address,
                                                      o.write_data, o.write_enable),
                               oneshot |-> DFF_edge(uut.adc.oneshot,
                                                    Shot_update(uut.adc.oneshot, o.trigger))],
                      slave |-> SPISlave_update(s, m, o),
                      master |-> m1]
           /\ trace' = [prev |-> IF finished THEN m.op ELSE trace.prev,
                        wrote |-> trace.wrote
                                    \/ (finished /\ m1.op.kind \in {"write", "conv"}),
                        convs |-> IF uut.adc.state = "SingleConversionCommit"
                                  THEN trace.convs + 1 ELSE trace.convs,
                        was |-> uut.adc.state]
    /\ UNCHANGED olderVars

Spec7193 == Init7193 /\ [][Clock7193]_vars

\* the register value the last transaction read, when it was a read
ReadValue == reg_val(uut.master.op.k, uut.master.received)

\* C24 as stated: after the reset transaction a read of register k returns
\* AD7193_REG_INITS[k], and the read of register k that follows a write of v to
\* register k returns v
C24_ReadBackAlways ==
    uut.master.op.kind = "read" =>
        /\ ~trace.wrote => ReadValue = AD7193_REG_INITS[uut.master.op.k + 1]
        /\ (trace.prev.kind = "write" /\ trace.prev.k = uut.master.op.k)
              => ReadValue = trace.prev.v

\* a write that starts a single conversion: the mode register with bit 21 set
StartsConversion(k, v) == k = 1 /\ get_bit(v, 21)

\* C24: after the reset transaction a read of register k returns
\* AD7193_REG_INITS[k]; the read of register k that follows a write of v to
\* register k returns v, unless the write started a single conversion
C24_ReadBack ==
    uut.master.op.kind = "read" =>
        /\ ~trace.wrote => ReadValue = AD7193_REG_INITS[uut.master.op.k + 1]
        /\ (/\ trace.prev.kind = "write"
            /\ trace.prev.k = uut.master.op.k
            /\ ~StartsConversion(trace.prev.k, trace.prev.v))
              => ReadValue = trace.prev.v

C24_Witness ==
    /\ uut.master.op.kind = "read"
    /\ uut.master.op.k = 6
    /\ trace.prev.kind = "write"
    /\ trace.prev.k = 6
    /\ trace.prev.v = 8388609
    /\ ReadValue = 8388609

C24_WitnessInit ==
    /\ uut.master.op.kind = "read"
    /\ uut.master.op.k = 7
    /\ ~trace.wrote
    /\ ReadValue = 5588176

\* C25: a write of the mode register (index 1) with bit 21 set, and no other
\* write, takes the FSM to SingleConversion; while it is there MISO is high
\* and the slave, once it has seen disabled, is Disabled; it leaves only for
\* SingleConversionCommit, which writes the conversion counter to register 3,
\* adds 0x100 to the counter and goes to Ready; the read of register 3 after
\* the n-th conversion (n = 0, 1, 2, ...) returns n * 0x100
C25_SingleConversion ==
    /\ (trace.was = "DoWrite" /\ uut.adc.state \notin {"DoWrite", "Ready"})
          => (uut.adc.state = "SingleConversion"
                <=> StartsConversion(uut.adc.reg_write_index,
                                     uut.adc.reg_ram._sim[uut.adc.reg_write_index]))
    /\ uut.adc.state = "SingleConversion" =>
          /\ SPISlave_miso(uut.slave)
          /\ trace.was = "SingleConversion" => uut.slave.state = "Disabled"
          /\ uut.adc.oneshot.state_q
    /\ trace.was = "SingleConversion"
          => uut.adc.state \in {"SingleConversion", "SingleConversionCommit"}
    /\ trace.was = "SingleConversionCommit" =>
          /\ uut.adc.state = "Ready"
          /\ uut.adc.reg_ram._sim[3] = (trace.convs - 1) * 256
    /\ uut.adc.conversion_counter = (trace.convs * 256) % (2 ^ 24)
    /\ (uut.master.op.kind = "read" /\ uut.master.op.k = 3 /\ trace.prev.kind = "conv")
          => (trace.convs >= 1 /\ ReadValue = (trace.convs - 1) * 256)

C25_Witness ==
    /\ uut.master.op.kind = "read"
    /\ uut.master.op.k = 3
    /\ trace.prev.kind = "conv"
    /\ trace.convs = 3
    /\ ReadValue = 512

\* ---------------------------------------------------------------------
\* SPISlave<N> under a free SPI bus and a free owner: the disabled input

\* the largest escape count followed
MaxEscape == 3

\* the bits values and the data_outbound words the owner latches
SlaveBits == {1, 2}

SlaveWords == {{}, {1}}

\* EdgeDetector::new(is_rising): a pulse when the synchronized line arrives at
\* the level is_rising
EdgeDetector(is_rising, before, after) == before # after /\ after = is_rising

InitSlave ==
    /\ uut = SPISlave_new(2, TRUE, TRUE)
    /\ trace = [csel |-> TRUE, mclk |-> TRUE, disabled |-> FALSE, before |-> FALSE,
                state |-> "Boot", register_in |-> {}, shifted |-> FALSE]
    /\ NoOlder

\* one rising clock edge, with the synchronized chip select and clock lines at
\* csel and mclk (cpol = cpha = 1, cs_off = 1: advance on the falling clock
\* edge, capture on the rising one).  trace keeps the lines, the state and
\* register_in before the edge, disabled at this edge and at the one before,
\* and whether register_in took a bit while disabled was raised at both.
SlaveClock(csel, mclk, mosi, start_send, bits, data_outbound, continued_transaction, disabled) ==
    /\ start_send => uut.state = "Idle"
    /\ uut.state # "Capture" => mosi
    /\ LET w == [csel |-> csel,
                 edge |-> EdgeDetector(~uut.cs_off, trace.csel, csel),
                 advance |-> EdgeDetector(FALSE, trace.mclk, mclk),
                 capture |-> EdgeDetector(TRUE, trace.mclk, mclk),
                 mosi |-> mosi]
           f == [start_send |-> start_send, bits |-> bits, data_outbound |-> data_outbound,
                 continued_transaction |-> continued_transaction, disabled |-> disabled]
       IN  /\ uut' = SPISlave_update(uut, w, f)
           /\ uut'.escape <= MaxEscape
           /\ trace' = [csel |-> csel, mclk |-> mclk, disabled |-> disabled,
                        before |-> trace.disabled, state |-> uut.state,
                        register_in |-> uut.register_in,
                        shifted |-> trace.disabled /\ disabled /\ uut.state = "Capture"]
    /\ UNCHANGED olderVars

\* the owner raises start_send
SlaveSend ==
    \E csel \in BOOLEAN, mclk \in BOOLEAN, bits \in SlaveBits, data_outbound \in SlaveWords,
       continued_transaction \in BOOLEAN, disabled \in BOOLEAN :
        SlaveClock(csel, mclk, TRUE, TRUE, bits, data_outbound, continued_transaction, disabled)

\* start_send is low
SlaveRun ==
    \E csel \in BOOLEAN, mclk \in BOOLEAN, mosi \in BOOLEAN, disabled \in BOOLEAN :
        SlaveClock(csel, mclk, mosi, FALSE, 0, {}, FALSE, disabled)

NextSlave == SlaveSend \/ SlaveRun

SpecSlave == InitSlave /\ [][NextSlave]_vars

\* C33: from the clock after disabled is raised, whatever the state was, and
\* while disabled stays raised, miso is high and the state and register_in do
\* not change; when disabled falls the slave is in Idle with register_out
\* cleared
C33_DisabledIgnoresWires ==
    /\ trace.disabled => SPISlave_miso(uut)
    /\ (trace.before /\ trace.disabled) =>
          /\ uut.state = trace.state
          /\ uut.register_in = trace.register_in
    /\ (trace.before /\ ~trace.disabled) =>
          /\ uut.state = "Idle"
          /\ uut.register_out = {}

\* what the Disabled state does: miso high, state and register_in kept while
\* disabled is raised, Idle with register_out cleared when it falls; and the
\* two ways in, from Idle without a chip select edge or start_send and from
\* Hangup
C33_DisabledState ==
    /\ uut.state = "Disabled" => SPISlave_miso(uut)
    /\ (trace.state = "Disabled" /\ trace.disabled) =>
          /\ uut.state = "Disabled"
          /\ uut.register_in = trace.register_in
    /\ (trace.state = "Disabled" /\ ~trace.disabled) =>
          /\ uut.state = "Idle"
          /\ uut.register_out = {}
    /\ uut.state = "Disabled" => trace.disabled /\ trace.state \in {"Idle", "Hangup", "Disabled"}
    /\ (trace.state = "Hangup" /\ trace.disabled) => uut.state = "Disabled"

\* a bit of mosi was shifted into register_in with disabled raised at that
\* clock and at the one before
C33_ShiftedWhileDisabled ==
    /\ trace.shifted
    /\ trace.state = "Capture"
    /\ uut.register_in # trace.register_in
    /\ ~SPISlave_miso(uut)

\* ---------------------------------------------------------------------
\* MISOWidePort<W, D> (rust_hdl_lib_hls/src/miso_wide_port.rs)

\* W and D: the width of the port and of the bus
WideW == 4

WideD == 2

\* the words the port is given
WideWords == {0, 6, 9, 15}

\* MISOWidePort::default(): the flip-flops at their defaults and the constants
MISOWidePort_default ==
    [accum |-> 0, address_active |-> FALSE, count |-> 0, ready |-> FALSE,
     offset |-> WideD, shift |-> WideW - WideD, modulo |-> WideW \div WideD]

\* bus.to_controller and bus.ready as MISOWidePort::update drives them
MISOWidePort_to_controller(u) ==
    IF u.address_active THEN (u.accum \div (2 ^ u.shift)) % (2 ^ WideD) ELSE 0

MISOWidePort_ready(u) == u.address_active /\ u.ready /\ u.count # 0

\* MISOWidePort::update: the d inputs of the flip-flops, which hold their q
\* where update assigns nothing; of two assignments the later one stands
MISOWidePort_update(u, select, strobe, port_in, strobe_in) ==
    LET d0 == [u EXCEPT !.address_active = select,
                        !.ready = (u.count # 0) /\ u.address_active]
        d1 == IF strobe_in THEN [d0 EXCEPT !.accum = port_in, !.count = u.modulo] ELSE d0
    IN  IF u.address_active /\ strobe
        THEN [d1 EXCEPT !.accum = (u.accum * (2 ^ u.offset)) % (2 ^ WideW),
                        !.count = (u.count - 1) % 256]
        ELSE d1

InitWide ==
    /\ uut = MISOWidePort_default
    /\ trace = [strobe_in |-> FALSE, port_in |-> 0, strobed |-> FALSE, ready |-> FALSE,
                accum |-> 0, count |-> 0]
    /\ NoOlder

\* one rising edge of the bus clock.  trace keeps strobe_in and port_in at the
\* edge, whether the bus strobed the selected port at it, whether the port
\* showed ready, and accum and count before it
WideClock(select, strobe, port_in, strobe_in) ==
    /\ uut' = MISOWidePort_update(uut, select, strobe, port_in, strobe_in)
    /\ trace' = [strobe_in |-> strobe_in, port_in |-> port_in,
                 strobed |-> uut.address_active /\ strobe,
                 ready |-> MISOWidePort_ready(uut),
                 accum |-> uut.accum, count |-> uut.count]
    /\ UNCHANGED olderVars

\* the owner strobes a word in
WideLoad ==
    \E select \in BOOLEAN, strobe \in BOOLEAN, port_in \in WideWords :
        WideClock(select, strobe, port_in, TRUE)

\* strobe_in is low
WideRun ==
    \E select \in BOOLEAN, strobe \in BOOLEAN : WideClock(select, strobe, 0, FALSE)

NextWide == WideLoad \/ WideRun

SpecWide == InitWide /\ [][NextWide]_vars

\* C34: whenever strobe_in was high at a clock edge, accum holds port_in and
\* count holds W/D after it, whatever the bus did at that edge
C34_StrobeInLoads ==
    trace.strobe_in =>
        /\ uut.accum = trace.port_in
        /\ uut.count = WideW \div WideD

\* what update does at an edge with strobe_in high: the load when the bus did
\* not strobe the selected port, and otherwise the shift of the old word and
\* the decrement of the old count
C34_BusStrobeWins ==
    trace.strobe_in =>
        IF trace.strobed
        THEN /\ uut.accum = (trace.accum * (2 ^ WideD)) % (2 ^ WideW)
             /\ uut.count = (trace.count - 1) % 256
        ELSE /\ uut.accum = trace.port_in
             /\ uut.count = WideW \div WideD

\* a word strobed in while the controller read a ready port: the new word is
\* lost
C34_LoadLost ==
    /\ trace.strobe_in
    /\ trace.strobed
    /\ trace.ready
    /\ trace.accum = 9
    /\ trace.count = 2
    /\ trace.port_in = 6
    /\ uut.accum = 4
    /\ uut.count = 1

====
